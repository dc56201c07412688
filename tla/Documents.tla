------------------------------ MODULE Documents ------------------------------
(***************************************************************************)
(* Raw documents: uploads that store a file and then insert its row,       *)
(* requests that verify the stored file against the row, and requests that *)
(* ingest and chunk one document or every document of a corpus.            *)
(*                                                                         *)
(* One chunking profile is used.  The bytes of a file are named by the     *)
(* upload that wrote them, and so are the hash of a row, its parsed text   *)
(* and its chunks.  Files are read and written in threads, so every access *)
(* is a step of its own.                                                   *)
(***************************************************************************)
EXTENDS Naturals, FiniteSets

CONSTANTS
    Files,       \* normalized names of stored files, in the order of a corpus
    Uploads,     \* upload requests
    Requests,    \* requests that read, ingest or chunk
    Edited,      \* documents whose status their owner may edit
    MaxChunks,   \* chunks one text may be split into
    MaxStops,    \* restarts of the process
    MaxFaults    \* errors of the disk or of the database

ASSUME DocumentsAssumption ==
    /\ Files \subseteq Nat
    /\ MaxChunks \in Nat \ {0}
    /\ MaxStops \in Nat
    /\ MaxFaults \in Nat

VARIABLES
    file,        \* the bytes stored under each name
    row,         \* the RawDocument of each name; source_path is unique
    chunks,      \* the DocumentChunk rows of each document
    upload,      \* the upload requests
    request,     \* the other requests
    overlap,     \* names two uploads were storing at once
    stops, faults

vars == <<file, row, chunks, upload, request, overlap, stops, faults>>

None == "none"
Partial == "partial"

ASSUME BytesAssumption == {None, Partial} \cap Uploads = {}

NoRow == [exists |-> FALSE, hash |-> None, status |-> "unverified",
          parsed |-> None]
NoRequest == [pc |-> "idle", operation |-> "none", todo |-> {},
              status |-> "none", found |-> None, text |-> None,
              size |-> 0, checked |-> 0]

Init ==
    /\ file = [f \in Files |-> None]
    /\ row = [f \in Files |-> NoRow]
    /\ chunks = [f \in Files |-> {}]
    /\ upload = [u \in Uploads |-> [pc |-> "idle", file |-> 0]]
    /\ request = [r \in Requests |-> NoRequest]
    /\ overlap = {}
    /\ stops = 0
    /\ faults = 0

Statuses == {"unverified", "available", "changed", "missing", "error"}

Rows ==
    [exists : BOOLEAN, hash : Uploads \cup {None}, status : Statuses,
     parsed : Uploads \cup {None}]

Positions == 1 .. MaxChunks

Chunks ==
    [position : Positions, by : Requests, text : Uploads,
     rivals : SUBSET Requests]

UploadStates ==
    [pc : {"idle", "write", "describe", "insert", "unlink", "done",
           "refused", "disowned", "stopped"},
     file : Files \cup {0}]

RequestStates ==
    [pc : {"idle", "load", "exists", "read", "verdict", "convert", "split", "parsed",
           "existing", "positions", "insert", "next", "done"},
     operation : {"none", "read", "ingest", "chunk"},
     todo : SUBSET Files,
     status : Statuses \cup {"none"},
     found : Statuses \cup {None},
     text : Uploads \cup {None},
     size : 0 .. MaxChunks,
     checked : 0 .. MaxChunks]

TypeOK ==
    /\ file \in [Files -> Uploads \cup {None, Partial}]
    /\ row \in [Files -> Rows]
    /\ chunks \in [Files -> SUBSET Chunks]
    /\ upload \in [Uploads -> UploadStates]
    /\ request \in [Requests -> RequestStates]
    /\ overlap \subseteq Files
    /\ stops \in 0..MaxStops /\ faults \in 0..MaxFaults

Fault == faults < MaxFaults /\ faults' = faults + 1
Quietly == UNCHANGED faults

-----------------------------------------------------------------------------
(* Uploads. *)

UploadFrame == UNCHANGED <<chunks, request, stops>>

UploadAt(u, label) == upload[u].pc = label

UploadGoes(u, label) == upload' = [upload EXCEPT ![u].pc = label]

UnderWay(u) == upload[u].pc \in {"write", "describe", "insert", "unlink"}

Storing(f) == {u \in Uploads : upload[u].file = f /\ UnderWay(u)}

Begins(u, f) ==
    /\ upload' = [upload EXCEPT ![u] = [pc |-> "write", file |-> f]]
    /\ overlap' = IF Storing(f) # {} THEN overlap \cup {f} ELSE overlap
    /\ UploadFrame /\ Quietly
    /\ UNCHANGED <<file, row>>

(* An upload that does not look for a stored file of its name. *)
UploadsAnyway(u, f) ==
    UploadAt(u, "idle") /\ Begins(u, f)

(* The name must be free when the upload begins; its bytes arrive later. *)
create_uploaded_raw_document_srvc(u, f) ==
    /\ UploadAt(u, "idle")
    /\ file[f] = None
    /\ Begins(u, f)

(* An error of the disk leaves what was written. *)
write_bytes(u) ==
    LET f == upload[u].file
    IN  /\ UploadAt(u, "write")
        /\ \/ /\ Quietly
              /\ file' = [file EXCEPT ![f] = u]
              /\ UploadGoes(u, "describe")
           \/ /\ Fault
              /\ file' = [file EXCEPT ![f] = Partial]
              /\ UploadGoes(u, "done")
        /\ UploadFrame
        /\ UNCHANGED <<row, overlap>>

(* The file is described for its row outside the handler that removes it:  *)
(* a name that the schema refuses leaves the file behind.                  *)
RawDocumentCreate(u) ==
    /\ UploadAt(u, "describe")
    /\ UploadGoes(u, "insert") \/ UploadGoes(u, "refused")
    /\ UploadFrame /\ Quietly
    /\ UNCHANGED <<file, row, overlap>>

InsertsRow(u, f) ==
    /\ ~row[f].exists
    /\ row' = [row EXCEPT ![f] =
           [NoRow EXCEPT !.exists = TRUE, !.hash = u, !.status = "available"]]

(* The row and its links to corpora are one transaction: the path may be   *)
(* taken, a corpus may not exist, and the refresh may fail that follows    *)
(* the commit.                                                             *)
create_raw_document(u) ==
    /\ UploadAt(u, "insert")
    /\ \/ InsertsRow(u, upload[u].file) /\ Quietly /\ UploadGoes(u, "done")
       \/ InsertsRow(u, upload[u].file) /\ Fault /\ UploadGoes(u, "unlink")
       \/ UNCHANGED row /\ Quietly /\ UploadGoes(u, "unlink")
    /\ UploadFrame
    /\ UNCHANGED <<file, overlap>>

(* A failed upload removes the file of its name, whoever wrote it last,    *)
(* and disowns the row if that was inserted all the same.                  *)
unlink(u) ==
    LET f == upload[u].file
    IN  /\ UploadAt(u, "unlink")
        /\ file' = [file EXCEPT ![f] = None]
        /\ UploadGoes(u, IF row[f].hash = u THEN "disowned" ELSE "done")
        /\ UploadFrame /\ Quietly
        /\ UNCHANGED <<row, overlap>>

UploadNext(u) ==
    \/ \E f \in Files : create_uploaded_raw_document_srvc(u, f)
    \/ write_bytes(u)
    \/ RawDocumentCreate(u)
    \/ create_raw_document(u)
    \/ unlink(u)

-----------------------------------------------------------------------------
(* Reading, ingesting and chunking.  A request works through its documents *)
(* in their order; every document is verified first.                       *)

RequestFrame == UNCHANGED <<file, upload, overlap, stops>>

RequestAt(r, label) == request[r].pc = label

RequestGoes(r, label) == request' = [request EXCEPT ![r].pc = label]

RequestEnds(r) ==
    request' = [request EXCEPT ![r] = [NoRequest EXCEPT !.pc = "done"]]

Document(r) == CHOOSE f \in request[r].todo : \A g \in request[r].todo : f <= g

Documents == {f \in Files : row[f].exists}

(* The operation on one document, or on all that the corpus links now. *)
get_corpus_raw_document_ids(r) ==
    /\ RequestAt(r, "idle")
    /\ \E operation \in {"read", "ingest", "chunk"},
          todo \in {{f} : f \in Documents} \cup {Documents} :
           /\ todo # {}
           /\ request' = [request EXCEPT ![r] =
                  [NoRequest EXCEPT !.pc = "load", !.operation = operation,
                                    !.todo = todo]]
    /\ RequestFrame /\ Quietly
    /\ UNCHANGED <<row, chunks>>

(* The session's copy of the row. *)
get_raw_document_by_id(r) ==
    /\ RequestAt(r, "load")
    /\ request' = [request EXCEPT ![r].pc = "exists",
                                  ![r].status = row[Document(r)].status]
    /\ RequestFrame /\ Quietly
    /\ UNCHANGED <<row, chunks>>

Verifies(r, found) ==
    request' = [request EXCEPT ![r].pc = "verdict", ![r].found = found]

verify_raw_document_source_srvc(r) ==
    /\ RequestAt(r, "exists")
    /\ IF file[Document(r)] = None
       THEN Verifies(r, "missing") ELSE RequestGoes(r, "read")
    /\ RequestFrame /\ Quietly
    /\ UNCHANGED <<row, chunks>>

(* The file may be gone by the time its bytes are read. *)
_hash_bytes(r) ==
    LET f == Document(r)
    IN  /\ RequestAt(r, "read")
        /\ \/ /\ Quietly
              /\ Verifies(r, CASE file[f] = None -> "error"
                               [] file[f] = row[f].hash -> "available"
                               [] OTHER -> "changed")
           \/ Fault /\ Verifies(r, "error")
        /\ RequestFrame
        /\ UNCHANGED <<row, chunks>>

(* The verdict is written if the copy says otherwise, and the row is then  *)
(* loaded again; "available" always loads it again.                        *)
WritesVerdict(r) ==
    LET f == Document(r)
        verdict == request[r].found
        written == IF verdict = request[r].status
                   THEN row[f].status ELSE verdict
        seen == IF verdict = request[r].status /\ verdict # "available"
                THEN verdict ELSE written
    IN  /\ RequestAt(r, "verdict")
        /\ row' = [row EXCEPT ![f].status = written]
        /\ CASE request[r].operation = "read" -> RequestGoes(r, "next")
             [] request[r].operation # "read" /\ seen # "available" ->
                    RequestEnds(r)
             [] request[r].operation = "ingest" /\ seen = "available" ->
                    RequestGoes(r, "convert")
             [] OTHER ->
                    request' = [request EXCEPT ![r].pc = "existing",
                                               ![r].text = row[f].parsed]
        /\ RequestFrame /\ Quietly
        /\ UNCHANGED chunks

(* An error of the commit ends the request.  One of the refresh behind it  *)
(* is caught, and "error" written over the verdict that was committed,     *)
(* unless that fails too.                                                  *)
VerdictFails(r) ==
    LET f == Document(r)
    IN  /\ RequestAt(r, "verdict")
        /\ request[r].found \in {"available"} \cup (Statuses \ {request[r].status})
        /\ Fault
        /\ \/ UNCHANGED row /\ RequestEnds(r)
           \/ /\ row' = [row EXCEPT ![f].status = request[r].found]
              /\ RequestEnds(r)
           \/ /\ row' = [row EXCEPT ![f].status = "error"]
              /\ IF request[r].operation = "read"
                 THEN RequestGoes(r, "next") ELSE RequestEnds(r)
        /\ RequestFrame
        /\ UNCHANGED chunks

(* The file is read once more to be converted. *)
_convert_raw_document_to_markdown(r) ==
    /\ RequestAt(r, "convert")
    /\ IF file[Document(r)] \in Uploads
       THEN request' = [request EXCEPT ![r].pc = "split",
                                       ![r].text = file[Document(r)]]
       ELSE RequestEnds(r)
    /\ RequestFrame /\ Quietly
    /\ UNCHANGED <<row, chunks>>

(* In memory, before anything is stored; a strategy that needs embeddings  *)
(* gets none from a request and raises.  Options decide on the size.       *)
_chunk_cleaned_document(r) ==
    /\ RequestAt(r, "split")
    /\ \/ \E size \in 0 .. MaxChunks :
              request' = [request EXCEPT ![r].pc = "parsed", ![r].size = size]
       \/ RequestEnds(r)
    /\ RequestFrame /\ Quietly
    /\ UNCHANGED <<row, chunks>>

(* Without chunks nothing is checked and nothing inserted. *)
AfterParsing(size) == IF size = 0 THEN "next" ELSE "positions"

StoresParsed(r) ==
    row' = [row EXCEPT ![Document(r)].parsed = request[r].text]

(* The parsed text is committed before the chunks. *)
update_raw_document_parsed_content(r) ==
    /\ RequestAt(r, "parsed")
    /\ \/ StoresParsed(r) /\ Quietly
          /\ RequestGoes(r, AfterParsing(request[r].size))
       \/ (StoresParsed(r) \/ UNCHANGED row) /\ Fault /\ RequestEnds(r)
    /\ RequestFrame
    /\ UNCHANGED chunks

_load_parsed_document(r) == request[r].text # None

(* Chunking needs parsed text and no chunks of the profile so far. *)
chunk_raw_document_srvc(r) ==
    /\ RequestAt(r, "existing")
    /\ IF chunks[Document(r)] = {} /\ _load_parsed_document(r)
       THEN \E size \in 0 .. MaxChunks :
                request' = [request EXCEPT ![r].pc = AfterParsing(size),
                                           ![r].size = size]
       ELSE RequestEnds(r)
    /\ RequestFrame /\ Quietly
    /\ UNCHANGED <<row, chunks>>

(* The positions are looked at one by one, each in a statement of its own. *)
LooksAtNext(r) ==
    LET looked == request[r].checked + 1
    IN  request' = [request EXCEPT
            ![r].checked = looked,
            ![r].pc = IF looked = request[r].size THEN "insert" ELSE "positions"]

(* A request that goes on whatever it finds. *)
InsertsAnyway(r) ==
    /\ RequestAt(r, "positions")
    /\ LooksAtNext(r)
    /\ RequestFrame /\ Quietly
    /\ UNCHANGED <<row, chunks>>

(* No chunk may hold a position already; the table does not enforce it.    *)
ensure_no_duplicate_positions_in_db(r) ==
    /\ RequestAt(r, "positions")
    /\ IF \E chunk \in chunks[Document(r)] :
              chunk.position = request[r].checked + 1
       THEN RequestEnds(r) ELSE LooksAtNext(r)
    /\ RequestFrame /\ Quietly
    /\ UNCHANGED <<row, chunks>>

(* The requests that have found a position free and not inserted yet. *)
HasLookedAt(q, f, position) ==
    /\ RequestAt(q, "positions") \/ RequestAt(q, "insert")
    /\ Document(q) = f
    /\ position <= request[q].checked

(* What a request inserts; every chunk remembers the rivals it has then. *)
NewChunks(r) ==
    {[position |-> p, by |-> r, text |-> request[r].text,
      rivals |-> {q \in Requests \ {r} : HasLookedAt(q, Document(r), p)}] :
         p \in 1 .. request[r].size}

InsertsChunks(r) ==
    chunks' = [chunks EXCEPT ![Document(r)] = @ \cup NewChunks(r)]

(* One transaction; the refreshes that follow it may fail. *)
bulk_create_document_chunks(r) ==
    /\ RequestAt(r, "insert")
    /\ \/ InsertsChunks(r) /\ Quietly /\ RequestGoes(r, "next")
       \/ (InsertsChunks(r) \/ UNCHANGED chunks) /\ Fault /\ RequestEnds(r)
    /\ RequestFrame
    /\ UNCHANGED row

(* Each document was committed on its own. *)
ingest_corpus_srvc(r) ==
    LET rest == request[r].todo \ {Document(r)}
    IN  /\ RequestAt(r, "next")
        /\ IF rest = {} THEN RequestEnds(r)
           ELSE request' = [request EXCEPT ![r] =
                    [NoRequest EXCEPT !.pc = "load", !.todo = rest,
                                      !.operation = request[r].operation]]
        /\ RequestFrame /\ Quietly
        /\ UNCHANGED <<row, chunks>>

(* The owner edits the row: here the status by hand; the bibliography is   *)
(* left out, and so are edits of the path and of the hash.                 *)
update_raw_document(f) ==
    /\ f \in Edited /\ row[f].exists
    /\ \E status \in {"unverified", "available"} :
           row' = [row EXCEPT ![f].status = status]
    /\ UNCHANGED <<chunks, request, faults>>
    /\ RequestFrame

RequestNext(r) ==
    \/ get_corpus_raw_document_ids(r)
    \/ get_raw_document_by_id(r)
    \/ verify_raw_document_source_srvc(r)
    \/ _hash_bytes(r)
    \/ WritesVerdict(r)
    \/ VerdictFails(r)
    \/ _convert_raw_document_to_markdown(r)
    \/ _chunk_cleaned_document(r)
    \/ update_raw_document_parsed_content(r)
    \/ chunk_raw_document_srvc(r)
    \/ ensure_no_duplicate_positions_in_db(r)
    \/ bulk_create_document_chunks(r)
    \/ ingest_corpus_srvc(r)

-----------------------------------------------------------------------------
(* The process ends with every request, and may cut a file off that is     *)
(* being written.                                                          *)
Stop ==
    /\ stops < MaxStops
    /\ stops' = stops + 1
    /\ \E cut \in SUBSET {upload[u].file : u \in {v \in Uploads : UploadAt(v, "write")}} :
           file' = [f \in Files |-> IF f \in cut THEN Partial ELSE file[f]]
    /\ upload' = [u \in Uploads |->
                     IF UnderWay(u) THEN [upload[u] EXCEPT !.pc = "stopped"]
                     ELSE upload[u]]
    /\ request' = [r \in Requests |->
                      IF RequestAt(r, "idle") THEN request[r]
                      ELSE [NoRequest EXCEPT !.pc = "done"]]
    /\ UNCHANGED <<row, chunks, overlap, faults>>

Next ==
    \/ \E u \in Uploads : UploadNext(u)
    \/ \E r \in Requests : RequestNext(r)
    \/ \E f \in Files : update_raw_document(f)
    \/ Stop

Spec == Init /\ [][Next]_vars

-----------------------------------------------------------------------------
(* A row whose upload removed the file because the refresh behind the      *)
(* commit had failed.                                                      *)
Disowned(f) == row[f].exists /\ upload[row[f].hash].pc = "disowned"

(* Unless two uploads of one name overlap, or an upload disowns its row, a *)
(* stored file is the one whose hash its row records, and so are the       *)
(* parsed text and every chunk made of it; the upload of a file without a  *)
(* row is under way, was refused once it had written, or was stopped.      *)
SourcesMatchTheirRows ==
    \A f \in Files \ overlap :
        /\ file[f] \in Uploads /\ ~row[f].exists =>
               /\ upload[file[f]].file = f
               /\ upload[file[f]].pc \in {"describe", "insert", "unlink",
                                          "refused", "stopped"}
        /\ row[f].exists /\ ~Disowned(f) =>
               /\ file[f] = row[f].hash
               /\ row[f].parsed \in {None, row[f].hash}
               /\ \A chunk \in chunks[f] : chunk.text = row[f].hash

(* Two chunks of a document hold one position only if, when the request of *)
(* one inserted it, the request of the other had already looked at that    *)
(* position and found it free.                                             *)
ChunksAreDuplicatedByRivalsOnly ==
    \A f \in Files : \A one, other \in chunks[f] :
        one # other /\ one.position = other.position =>
            one.by \in other.rivals \/ other.by \in one.rivals

=============================================================================

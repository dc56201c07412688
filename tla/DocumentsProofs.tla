--------------------------- MODULE DocumentsProofs ---------------------------
(***************************************************************************)
(* Proofs about raw documents, for every number of files, uploads,         *)
(* requests, chunks, restarts and faults: what is stored, parsed and       *)
(* chunked is what the row of a document names, and two chunks share a     *)
(* position only if their requests looked at it side by side.              *)
(***************************************************************************)
EXTENDS Documents, WellFoundedInduction, TLAPS

(* A row whose file can be relied on.                                      *)
Trusted(f) == row[f].exists /\ f \notin overlap /\ ~Disowned(f)

(* An upload stores one file, and unless uploads overlap it is alone with  *)
(* it: a row that is there before its own has been disowned.               *)
UploadsStoreAFile ==
    \A u \in Uploads : upload[u].pc # "idle" => upload[u].file \in Files

UploadsAreAlone ==
    \A f \in Files \ overlap :
        /\ \A u, v \in Storing(f) : u = v
        /\ \A u \in Storing(f) :
              /\ file[f] = IF UploadAt(u, "write") THEN None ELSE u
              /\ Trusted(f) => UploadAt(u, "unlink") /\ row[f].hash = u

(* A request works on documents; what it has read of one is what the row   *)
(* of that document names.                                                 *)
RequestsHaveDocuments ==
    \A r \in Requests : request[r].pc \notin {"idle", "done"} =>
        request[r].todo # {} /\ request[r].todo \subseteq Documents

RequestsHaveText ==
    \A r \in Requests :
        /\ RequestAt(r, "verdict") => request[r].found # None
        /\ request[r].pc \in {"split", "parsed", "positions", "insert"} =>
              request[r].text \in Uploads

TextsMatchTheirRows ==
    \A r \in Requests, f \in Files :
        /\ request[r].pc \in {"split", "parsed", "existing", "positions", "insert"}
        /\ Document(r) = f /\ Trusted(f)
        => request[r].text \in {None, row[f].hash}

(* A request counts the positions it has looked at, from none to all.      *)
Early == {"load", "exists", "read", "verdict", "convert", "split", "parsed",
          "existing"}

ChecksAreCounted ==
    \A r \in Requests :
        /\ request[r].pc \in Early => request[r].checked = 0
        /\ RequestAt(r, "positions") => request[r].checked < request[r].size
        /\ RequestAt(r, "insert") => request[r].checked = request[r].size

(* The hash of a row is that of an upload of its name, and chunks belong   *)
(* to a row; who has found a position free that is taken by now was a      *)
(* rival of the chunk that took it.                                        *)
RowsAreHashed ==
    \A f \in Files : row[f].exists =>
        row[f].hash \in Uploads /\ upload[row[f].hash].file = f
        /\ upload[row[f].hash].pc \in {"unlink", "done", "disowned", "stopped"}

RowsComeHashed == \A f \in Files : ~row[f].exists => row[f].hash = None

ChunksHaveDocuments == \A f \in Files : ~row[f].exists => chunks[f] = {}

LookersAreRivals ==
    \A q \in Requests, f \in Files : \A chunk \in chunks[f] :
        HasLookedAt(q, f, chunk.position) => q \in chunk.rivals

IInv ==
    /\ TypeOK
    /\ UploadsStoreAFile /\ UploadsAreAlone
    /\ RequestsHaveDocuments /\ RequestsHaveText /\ TextsMatchTheirRows
    /\ ChecksAreCounted
    /\ RowsAreHashed /\ RowsComeHashed /\ ChunksHaveDocuments /\ LookersAreRivals
    /\ SourcesMatchTheirRows /\ ChunksAreDuplicatedByRivalsOnly


-----------------------------------------------------------------------------
(* The next document of a request is one of those it has left.             *)
LEMMA LeastElement ==
    ASSUME NEW T \in SUBSET Nat, T # {}
    PROVE  \E x \in T : \A y \in T : x <= y
<1> DEFINE R == OpToRel(<, Nat)
<1>1. PICK x \in T : \A y \in T : <<y, x>> \notin R
  <2>1. IsWellFoundedOn(R, Nat)
    BY NatLessThanWellFounded
  <2> HIDE DEF R
  <2> QED
    BY <2>1, WFMin
<1>2. \A y \in T : ~(y < x)
  BY <1>1 DEF OpToRel
<1> QED
  BY <1>2

LEMMA DocumentIsLeft ==
    ASSUME NEW r \in Requests, request[r].todo \subseteq Files, request[r].todo # {}
    PROVE  Document(r) \in request[r].todo /\ Document(r) \in Files
<1>1. \E f \in request[r].todo : \A g \in request[r].todo : f <= g
  BY LeastElement, DocumentsAssumption
<1> QED
  BY <1>1 DEF Document

(* What may be relied on while a request works on its document.            *)
LEMMA AtWork ==
    ASSUME IInv, NEW r \in Requests, request[r].pc \notin {"idle", "done"}
    PROVE  /\ Document(r) \in request[r].todo /\ Document(r) \in Files
           /\ request[r].todo \in SUBSET Files /\ request[r].todo # {}
           /\ request[r].todo \subseteq Documents
           /\ row[Document(r)].exists
           /\ request[r] \in RequestStates /\ row[Document(r)] \in Rows
<1>1. request[r].todo # {} /\ request[r].todo \subseteq Documents
  BY DEF IInv, RequestsHaveDocuments
<1>2. request[r].todo \subseteq Files
  BY <1>1 DEF Documents
<1>3. Document(r) \in request[r].todo /\ Document(r) \in Files
  BY <1>1, <1>2, DocumentIsLeft
<1>4. row[Document(r)].exists
  BY <1>1, <1>3 DEF Documents
<1> QED
  BY <1>1, <1>2, <1>3, <1>4 DEF IInv, TypeOK

LEMMA SameDocument ==
    ASSUME NEW q \in Requests, request'[q].todo = request[q].todo
    PROVE  Document(q)' = Document(q)
BY DEF Document

(* SourcesMatchTheirRows, for one file.                                    *)
SourceMatches(f) ==
    /\ file[f] \in Uploads /\ ~row[f].exists =>
           /\ upload[file[f]].file = f
           /\ upload[file[f]].pc \in {"describe", "insert", "unlink", "refused", "stopped"}
    /\ Trusted(f) =>
           /\ file[f] = row[f].hash
           /\ row[f].parsed \in {None, row[f].hash}
           /\ \A chunk \in chunks[f] : chunk.text = row[f].hash

LEMMA FileByFile ==
    /\ SourcesMatchTheirRows <=> \A f \in Files \ overlap : SourceMatches(f)
    /\ SourcesMatchTheirRows' <=> \A f \in Files \ overlap' : SourceMatches(f)'
BY DEF SourcesMatchTheirRows, SourceMatches, Trusted

-----------------------------------------------------------------------------
(* Uploads.  A row appears once and is left alone, and one that is         *)
(* disowned stays so.                                                      *)
UploadGoesOn ==
    /\ UploadFrame
    /\ TypeOK'
    /\ \A f \in Files : row[f].exists => row'[f] = row[f] /\ (Trusted(f)' => Trusted(f))
    /\ UploadsStoreAFile' /\ UploadsAreAlone'
    /\ RowsAreHashed' /\ RowsComeHashed' /\ SourcesMatchTheirRows'

LEMMA UploadKeeps == IInv /\ UploadGoesOn => IInv'
<1> SUFFICES ASSUME IInv, UploadGoesOn PROVE IInv'
  OBVIOUS
<1>1. UNCHANGED <<chunks, request, stops>>
      /\ \A f \in Files : row[f].exists => row'[f] = row[f] /\ (Trusted(f)' => Trusted(f))
  BY DEF UploadGoesOn, UploadFrame
<1>2. Documents \subseteq Documents'
  BY <1>1 DEF Documents
<1>3. \A r \in Requests : Document(r)' = Document(r)
  BY <1>1, SameDocument
<1>4. RequestsHaveDocuments'
  BY <1>1, <1>2 DEF IInv, RequestsHaveDocuments
<1>5. RequestsHaveText' /\ ChecksAreCounted'
  BY <1>1 DEF IInv, RequestsHaveText, ChecksAreCounted, RequestAt
<1>6. TextsMatchTheirRows'
  <2> SUFFICES ASSUME NEW r \in Requests, NEW f \in Files,
                      request[r].pc \in {"split", "parsed", "existing", "positions", "insert"},
                      Document(r) = f, Trusted(f)'
               PROVE  request[r].text \in {None, row'[f].hash}
    BY <1>1, <1>3 DEF TextsMatchTheirRows
  <2>1. row'[f] = row[f] /\ Trusted(f)
    BY <1>1, AtWork
  <2> QED
    BY <2>1 DEF IInv, TextsMatchTheirRows
<1>7. ChunksHaveDocuments'
  BY <1>1 DEF IInv, ChunksHaveDocuments
<1>8. LookersAreRivals'
  BY <1>1, <1>3 DEF IInv, LookersAreRivals, HasLookedAt, RequestAt
<1>9. ChunksAreDuplicatedByRivalsOnly'
  BY <1>1 DEF IInv, ChunksAreDuplicatedByRivalsOnly
<1> QED
  BY <1>4, <1>5, <1>6, <1>7, <1>8, <1>9 DEF IInv, UploadGoesOn

(* An upload leaves the files of others as they are: what is stored there  *)
(* and recorded is not its own.                                            *)
LEMMA OtherFilesMatch ==
    ASSUME IInv, NEW u \in Uploads, NEW f,
           upload[u].pc = "idle" \/ upload[u].file = f,
           \A v \in Uploads \ {u} : upload'[v] = upload[v],
           NEW g \in Files, g # f, g \notin overlap', g \notin overlap,
           file'[g] = file[g], row'[g] = row[g], UNCHANGED chunks
    PROVE  SourceMatches(g)' /\ (Trusted(g)' => Trusted(g))
<1>1. SourceMatches(g)
  BY FileByFile DEF IInv
<1>2. file[g] \in Uploads /\ ~row[g].exists => file[g] # u
  BY <1>1 DEF SourceMatches
<1>3. row[g].exists => row[g].hash \in Uploads /\ row[g].hash # u
  BY DEF IInv, RowsAreHashed
<1>4. Trusted(g)' <=> Trusted(g)
  BY <1>3 DEF Trusted, Disowned
<1> QED
  BY <1>1, <1>2, <1>4 DEF SourceMatches

(* A row that cannot be relied on stays so.                                *)
LEMMA TrustIsNotRegained ==
    ASSUME IInv, NEW g \in Files, row[g].exists, row'[g] = row[g], overlap \subseteq overlap',
           \A v \in Uploads : upload[v].pc = "disowned" => upload'[v].pc = "disowned"
    PROVE  Trusted(g)' => Trusted(g)
<1>1. row[g].hash \in Uploads
  BY DEF IInv, RowsAreHashed
<1> QED
  BY <1>1 DEF Trusted, Disowned

LEMMA BeginKeeps ==
    ASSUME IInv, NEW u \in Uploads, NEW f \in Files, create_uploaded_raw_document_srvc(u, f)
    PROVE  UploadGoesOn
<1>1. /\ upload[u].pc = "idle" /\ file[f] = None
      /\ upload' = [upload EXCEPT ![u] = [pc |-> "write", file |-> f]]
      /\ overlap' = IF Storing(f) # {} THEN overlap \cup {f} ELSE overlap
      /\ UploadFrame /\ UNCHANGED <<file, row, faults>>
  BY DEF create_uploaded_raw_document_srvc, UploadAt, Begins, Quietly
<1>2. /\ upload \in [Uploads -> UploadStates]
      /\ upload'[u] = [pc |-> "write", file |-> f]
      /\ \A v \in Uploads \ {u} : upload'[v] = upload[v]
  BY <1>1 DEF IInv, TypeOK
<1>3. TypeOK'
  <2>1. [pc |-> "write", file |-> f] \in UploadStates
    BY DEF UploadStates
  <2> QED
    BY <1>1, <1>2, <2>1 DEF IInv, TypeOK, UploadFrame
<1>4. UploadsStoreAFile'
  BY <1>2 DEF IInv, UploadsStoreAFile
<1>5. /\ Storing(f)' = Storing(f) \cup {u} /\ u \notin Storing(f)
      /\ \A g \in Files \ {f} : Storing(g)' = Storing(g)
  BY <1>1, <1>2 DEF Storing, UnderWay
<1>6. \A g \in Files : row[g].exists => (Trusted(g)' => Trusted(g))
  BY <1>1, <1>2, TrustIsNotRegained
<1>7. f \notin overlap' => Storing(f) = {} /\ f \notin overlap /\ ~Trusted(f)
  <2> HAVE f \notin overlap'
  <2>1. Storing(f) = {} /\ f \notin overlap
    BY <1>1
  <2>2. SourceMatches(f)
    BY <2>1, FileByFile DEF IInv
  <2>3. row[f].exists => row[f].hash \in Uploads
    BY DEF IInv, RowsAreHashed
  <2> QED
    BY <1>1, <2>1, <2>2, <2>3, BytesAssumption DEF SourceMatches, Trusted
<1>8. ~Trusted(f) => ~Trusted(f)'
  BY <1>1, <1>6 DEF Trusted
<1>9. UploadsAreAlone'
  <2> SUFFICES ASSUME NEW g \in Files, g \notin overlap'
               PROVE  /\ \A v, w \in Storing(g)' : v = w
                      /\ \A v \in Storing(g)' :
                            /\ file[g] = IF UploadAt(v, "write")' THEN None ELSE v
                            /\ Trusted(g)' => UploadAt(v, "unlink")' /\ row[g].hash = v
    BY <1>1 DEF UploadsAreAlone
  <2>1. CASE g # f
    <3>1. /\ Storing(g)' = Storing(g) /\ Storing(g) \subseteq Uploads \ {u} /\ g \notin overlap
      BY <1>1, <1>5, <2>1 DEF Storing, UnderWay
    <3>2. \A v \in Storing(g) : /\ UploadAt(v, "write")' = UploadAt(v, "write")
                                /\ UploadAt(v, "unlink")' = UploadAt(v, "unlink")
      BY <1>2, <3>1 DEF UploadAt
    <3>3. Trusted(g)' => Trusted(g)
      BY <1>1, <1>6 DEF Trusted
    <3> QED
      BY <3>1, <3>2, <3>3 DEF IInv, UploadsAreAlone
  <2>2. CASE g = f
    <3>1. Storing(f)' = {u} /\ UploadAt(u, "write")' /\ ~Trusted(f)'
      BY <1>2, <1>5, <1>7, <1>8, <2>2 DEF UploadAt
    <3>2. Storing(g)' = {u} /\ ~Trusted(g)'
      BY <2>2, <3>1
    <3> QED
      BY <1>1, <2>2, <3>1, <3>2
  <2> QED
    BY <2>1, <2>2
<1>10. SourcesMatchTheirRows'
  <2> SUFFICES ASSUME NEW g \in Files, g \notin overlap'
               PROVE  SourceMatches(g)'
    BY FileByFile
  <2>1. CASE g # f
    <3>1. g \notin overlap
      BY <1>1
    <3> QED
      BY <1>1, <1>2, <2>1, <3>1, OtherFilesMatch DEF UploadFrame
  <2>2. CASE g = f
    <3>1. ~Trusted(g)'
      BY <1>7, <1>8, <2>2
    <3> QED
      BY <1>1, <2>2, <3>1, BytesAssumption DEF SourceMatches
  <2> QED
    BY <2>1, <2>2
<1>11. RowsAreHashed' /\ RowsComeHashed'
  BY <1>1, <1>2 DEF IInv, RowsAreHashed, RowsComeHashed
<1> QED
  BY <1>1, <1>3, <1>4, <1>6, <1>9, <1>10, <1>11 DEF UploadGoesOn

(* Where an upload goes on, and where it is at its end.                    *)
Stages == {"describe", "insert", "unlink"}
Ends == {"done", "refused", "disowned"}

(* The upload that moves on with its file, beside the others.              *)
LEMMA UploadMoves ==
    ASSUME IInv, NEW u \in Uploads, UnderWay(u),
           NEW label \in Stages \cup Ends, UploadGoes(u, label),
           NEW f, f = upload[u].file
    PROVE  /\ upload' \in [Uploads -> UploadStates]
           /\ upload'[u].pc = label /\ upload'[u].file = f
           /\ f \in Files
           /\ \A v \in Uploads \ {u} : upload'[v] = upload[v]
           /\ UploadsStoreAFile'
           /\ u \in Storing(f)
           /\ Storing(f)' = IF label \in Ends THEN Storing(f) \ {u} ELSE Storing(f)
           /\ \A g \in Files \ {f} : Storing(g)' = Storing(g) /\ u \notin Storing(g)
           /\ \A v \in Uploads : upload[v].pc = "disowned" => upload'[v].pc = "disowned"
<1>1. upload \in [Uploads -> UploadStates] /\ upload[u].file \in Files
  BY DEF IInv, TypeOK, UploadsStoreAFile, UnderWay
<1>2. upload' = [upload EXCEPT ![u].pc = label]
  BY DEF UploadGoes
<1>3. /\ upload' \in [Uploads -> UploadStates]
      /\ upload'[u].pc = label /\ upload'[u].file = upload[u].file
      /\ \A v \in Uploads \ {u} : upload'[v] = upload[v]
  BY <1>1, <1>2 DEF UploadStates, Stages, Ends
<1>4. UploadsStoreAFile'
  BY <1>1, <1>3 DEF IInv, UploadsStoreAFile
<1>5. \A v \in Uploads : /\ v # u => UnderWay(v)' = UnderWay(v)
                         /\ UnderWay(u)' = (label \notin Ends)
  BY <1>3 DEF UnderWay, Stages, Ends
<1>6. /\ u \in Storing(f)
      /\ Storing(f)' = IF label \in Ends THEN Storing(f) \ {u} ELSE Storing(f)
      /\ \A g \in Files \ {f} : Storing(g)' = Storing(g) /\ u \notin Storing(g)
  BY <1>3, <1>5 DEF Storing
<1>7. \A v \in Uploads : upload[v].pc = "disowned" => upload'[v].pc = "disowned"
  BY <1>3 DEF UnderWay
<1> QED
  BY <1>1, <1>3, <1>4, <1>6, <1>7

(* What holds beside the file of the upload, and what has to hold there.   *)
LEMMA UploadStep ==
    ASSUME IInv, NEW u \in Uploads, UnderWay(u),
           NEW label \in Stages \cup Ends, UploadGoes(u, label),
           UploadFrame, UNCHANGED overlap, Quietly \/ Fault,
           NEW f, f = upload[u].file,
           file' \in [Files -> Uploads \cup {None, Partial}], row' \in [Files -> Rows],
           \A g \in Files \ {f} : row'[g] = row[g] /\ file'[g] = file[g],
           row[f].exists => row'[f] = row[f],
           ~row[f].exists /\ row'[f].exists => row'[f].hash = u /\ label \in {"unlink", "done"},
           ~row'[f].exists => row'[f].hash = None,
           row'[f].exists /\ row'[f].hash = u => label \in {"unlink", "done", "disowned"},
           f \notin overlap => SourceMatches(f)',
           f \notin overlap /\ label \in Stages =>
              file'[f] = u /\ (Trusted(f)' => label = "unlink" /\ row'[f].hash = u)
    PROVE  UploadGoesOn
<1>1. /\ upload' \in [Uploads -> UploadStates]
      /\ upload'[u].pc = label /\ upload'[u].file = f /\ f \in Files
      /\ \A v \in Uploads \ {u} : upload'[v] = upload[v]
      /\ UploadsStoreAFile'
      /\ u \in Storing(f)
      /\ Storing(f)' = IF label \in Ends THEN Storing(f) \ {u} ELSE Storing(f)
      /\ \A g \in Files \ {f} : Storing(g)' = Storing(g) /\ u \notin Storing(g)
      /\ \A v \in Uploads : upload[v].pc = "disowned" => upload'[v].pc = "disowned"
  BY UploadMoves, ZenonT(60)
<1>2. TypeOK'
  <2>1. faults' \in 0..MaxFaults
    BY DocumentsAssumption DEF IInv, TypeOK, Quietly, Fault
  <2> QED
    BY <1>1, <2>1 DEF IInv, TypeOK, UploadFrame
<1>3. \A g \in Files : row[g].exists => row'[g] = row[g] /\ (Trusted(g)' => Trusted(g))
  BY <1>1, TrustIsNotRegained
<1>4. \A g \in Files \ {f} : Trusted(g)' => Trusted(g)
  BY <1>3 DEF Trusted
<1>5. UploadsAreAlone'
  <2> SUFFICES ASSUME NEW g \in Files, g \notin overlap
               PROVE  /\ \A v, w \in Storing(g)' : v = w
                      /\ \A v \in Storing(g)' :
                            /\ file'[g] = IF UploadAt(v, "write")' THEN None ELSE v
                            /\ Trusted(g)' => UploadAt(v, "unlink")' /\ row'[g].hash = v
    BY DEF UploadsAreAlone
  <2>1. CASE g # f
    <3>1. /\ Storing(g)' = Storing(g) /\ Storing(g) \subseteq Uploads \ {u}
      BY <1>1, <2>1 DEF Storing
    <3>2. \A v \in Storing(g) : /\ UploadAt(v, "write")' = UploadAt(v, "write")
                                /\ UploadAt(v, "unlink")' = UploadAt(v, "unlink")
      BY <1>1, <3>1 DEF UploadAt
    <3> QED
      BY <1>4, <2>1, <3>1, <3>2 DEF IInv, UploadsAreAlone
  <2>2. CASE g = f
    <3>1. Storing(f) = {u}
      BY <1>1, <2>2 DEF IInv, UploadsAreAlone
    <3>2. Storing(g)' = Storing(f)' /\ Trusted(g)' = Trusted(f)'
      BY <2>2
    <3>3. CASE label \in Ends
      <4>1. Storing(g)' = {}
        BY <1>1, <3>1, <3>2, <3>3
      <4> QED
        BY <4>1
    <3>4. CASE label \in Stages
      <4>1. Storing(g)' = {u} /\ ~UploadAt(u, "write")'
        BY <1>1, <3>1, <3>2, <3>4 DEF Stages, Ends, UploadAt
      <4>2. file'[f] = u /\ (Trusted(f)' => label = "unlink" /\ row'[f].hash = u)
        BY <2>2, <3>4
      <4>3. label = "unlink" => UploadAt(u, "unlink")'
        BY <1>1 DEF UploadAt
      <4> QED
        BY <2>2, <3>2, <4>1, <4>2, <4>3
    <3> QED
      BY <3>3, <3>4
  <2> QED
    BY <2>1, <2>2
<1>6. SourcesMatchTheirRows'
  <2> SUFFICES ASSUME NEW g \in Files, g \notin overlap'
               PROVE  SourceMatches(g)'
    BY FileByFile
  <2>1. CASE g # f
    BY <1>1, <2>1, OtherFilesMatch DEF UploadFrame
  <2> QED
    BY <2>1
<1>7. RowsAreHashed'
  <2> SUFFICES ASSUME NEW g \in Files, row'[g].exists
               PROVE  /\ row'[g].hash \in Uploads /\ upload'[row'[g].hash].file = g
                      /\ upload'[row'[g].hash].pc \in {"unlink", "done", "disowned", "stopped"}
    BY DEF RowsAreHashed
  <2>1. CASE ~row[g].exists
    BY <1>1, <2>1
  <2>2. CASE row[g].exists
    <3>1. /\ row'[g] = row[g] /\ row[g].hash \in Uploads /\ upload[row[g].hash].file = g
          /\ upload[row[g].hash].pc \in {"unlink", "done", "disowned", "stopped"}
      BY <1>3, <2>2 DEF IInv, RowsAreHashed
    <3>2. CASE row[g].hash # u
      BY <1>1, <3>1, <3>2
    <3>3. CASE row[g].hash = u
      <4>1. g = f
        BY <3>1, <3>3
      <4> QED
        BY <1>1, <3>1, <3>3, <4>1
    <3> QED
      BY <3>2, <3>3
  <2> QED
    BY <2>1, <2>2
<1>8. RowsComeHashed'
  BY <1>1 DEF IInv, RowsComeHashed
<1> QED
  BY <1>2, <1>3, <1>1, <1>5, <1>6, <1>7, <1>8 DEF UploadGoesOn

(* What an upload under way knows of its file where no other overlaps it.  *)
LEMMA AloneWithItsFile ==
    ASSUME IInv, NEW u \in Uploads, UnderWay(u), NEW f, f = upload[u].file
    PROVE  /\ f \in Files
           /\ f \notin overlap =>
                 /\ file[f] = IF UploadAt(u, "write") THEN None ELSE u
                 /\ Trusted(f) => UploadAt(u, "unlink") /\ row[f].hash = u
           /\ row[f].exists /\ row[f].hash = u => UploadAt(u, "unlink")
           /\ ~row[f].exists => row[f].hash = None
<1>1. f \in Files
  BY DEF IInv, UploadsStoreAFile, UnderWay
<1>2. u \in Storing(f)
  BY DEF Storing
<1>3. row[f].exists /\ row[f].hash = u => UploadAt(u, "unlink")
  BY <1>1 DEF IInv, RowsAreHashed, UnderWay, UploadAt
<1> QED
  BY <1>1, <1>2, <1>3 DEF IInv, UploadsAreAlone, RowsComeHashed

(* The row of a file that cannot be relied on: with the same row, it is no *)
(* better after the step.                                                  *)
LEMMA SameTrust ==
    ASSUME IInv, NEW u \in Uploads, UnderWay(u),
           NEW label \in Stages \cup Ends, UploadGoes(u, label),
           UNCHANGED overlap, NEW f, f = upload[u].file, row'[f] = row[f]
    PROVE  Trusted(f)' => Trusted(f)
<1>1. /\ f \in Files
      /\ \A v \in Uploads : upload[v].pc = "disowned" => upload'[v].pc = "disowned"
  BY UploadMoves
<1>2. CASE row[f].exists
  BY <1>1, <1>2, TrustIsNotRegained
<1>3. CASE ~row[f].exists
  BY <1>3 DEF Trusted
<1> QED
  BY <1>2, <1>3

LEMMA WriteKeeps ==
    ASSUME IInv, NEW u \in Uploads, write_bytes(u)
    PROVE  UploadGoesOn
<1> PICK f : f = upload[u].file
  OBVIOUS
<1>1. /\ UploadAt(u, "write") /\ UnderWay(u) /\ UploadFrame /\ UNCHANGED <<row, overlap>>
  BY DEF write_bytes, UploadAt, UnderWay
<1>2. PICK label \in {"describe", "done"} :
          /\ UploadGoes(u, label)
          /\ file' = [file EXCEPT ![f] = IF label = "describe" THEN u ELSE Partial]
          /\ Quietly \/ Fault
  BY DEF write_bytes
<1>3. /\ f \in Files
      /\ f \notin overlap => ~Trusted(f)
      /\ ~(row[f].exists /\ row[f].hash = u)
      /\ ~row[f].exists => row[f].hash = None
  BY <1>1, AloneWithItsFile DEF UploadAt
<1>4. /\ \A g \in Files \ {f} : file'[g] = file[g]
      /\ file'[f] = IF label = "describe" THEN u ELSE Partial
      /\ file' \in [Files -> Uploads \cup {None, Partial}] /\ row' \in [Files -> Rows]
  BY <1>1, <1>2, <1>3 DEF IInv, TypeOK
<1>5. label \in Stages \cup Ends /\ (label \in Stages => label = "describe")
  BY DEF Stages, Ends
<1>6. f \notin overlap => ~Trusted(f)'
  BY <1>1, <1>2, <1>3, <1>5, SameTrust
<1>7. f \notin overlap => SourceMatches(f)'
  <2>1. upload'[u].pc = label /\ upload'[u].file = f
    BY <1>1, <1>2, <1>5, UploadMoves
  <2> QED
    BY <1>4, <1>6, <2>1, BytesAssumption DEF SourceMatches
<1> QED
  BY <1>1, <1>2, <1>3, <1>4, <1>5, <1>6, <1>7, UploadStep

LEMMA DescribeKeeps ==
    ASSUME IInv, NEW u \in Uploads, RawDocumentCreate(u)
    PROVE  UploadGoesOn
<1> PICK f : f = upload[u].file
  OBVIOUS
<1>1. /\ UploadAt(u, "describe") /\ UnderWay(u) /\ UploadFrame /\ Quietly
      /\ UNCHANGED <<file, row, overlap>>
  BY DEF RawDocumentCreate, UploadAt, UnderWay
<1>2. PICK label \in {"insert", "refused"} : UploadGoes(u, label)
  BY DEF RawDocumentCreate
<1>3. /\ f \in Files
      /\ f \notin overlap => ~Trusted(f) /\ file[f] = u
      /\ ~(row[f].exists /\ row[f].hash = u)
      /\ ~row[f].exists => row[f].hash = None
  BY <1>1, AloneWithItsFile DEF UploadAt
<1>4. label \in Stages \cup Ends /\ (label \in Stages => label = "insert")
  BY DEF Stages, Ends
<1>5. f \notin overlap => ~Trusted(f)'
  BY <1>1, <1>2, <1>3, <1>4, SameTrust
<1>6. f \notin overlap => SourceMatches(f)'
  <2>1. upload'[u].pc = label /\ upload'[u].file = f
    BY <1>1, <1>2, <1>4, UploadMoves
  <2> QED
    BY <1>1, <1>3, <1>5, <2>1 DEF SourceMatches
<1>7. file' \in [Files -> Uploads \cup {None, Partial}] /\ row' \in [Files -> Rows]
  BY <1>1 DEF IInv, TypeOK
<1> QED
  BY <1>1, <1>2, <1>3, <1>4, <1>5, <1>6, <1>7, UploadStep

LEMMA InsertRowKeeps ==
    ASSUME IInv, NEW u \in Uploads, create_raw_document(u)
    PROVE  UploadGoesOn
<1> PICK f : f = upload[u].file
  OBVIOUS
<1>1. /\ UploadAt(u, "insert") /\ UnderWay(u) /\ UploadFrame /\ (Quietly \/ Fault)
      /\ UNCHANGED <<file, overlap>>
  BY DEF create_raw_document, UploadAt, UnderWay
<1>2. /\ f \in Files
      /\ f \notin overlap => ~Trusted(f) /\ file[f] = u
      /\ ~(row[f].exists /\ row[f].hash = u)
      /\ ~row[f].exists => row[f].hash = None
  BY <1>1, AloneWithItsFile DEF UploadAt
<1>3. {"unlink", "done"} \subseteq Stages \cup Ends
  BY DEF Stages, Ends
<1>4. CASE UNCHANGED row /\ UploadGoes(u, "unlink")
  <2>1. f \notin overlap => ~Trusted(f)'
    BY <1>1, <1>2, <1>3, <1>4, SameTrust
  <2>2. f \notin overlap => SourceMatches(f)'
    <3>1. upload'[u].pc = "unlink" /\ upload'[u].file = f
      BY <1>1, <1>3, <1>4, UploadMoves
    <3> QED
      BY <1>1, <1>2, <1>4, <2>1, <3>1 DEF SourceMatches
  <2>3. file' \in [Files -> Uploads \cup {None, Partial}] /\ row' \in [Files -> Rows]
    BY <1>1, <1>4 DEF IInv, TypeOK
  <2> QED
    BY <1>1, <1>2, <1>3, <1>4, <2>1, <2>2, <2>3, UploadStep
<1>5. CASE InsertsRow(u, f) /\ (UploadGoes(u, "done") \/ UploadGoes(u, "unlink"))
  <2> DEFINE new == [NoRow EXCEPT !.exists = TRUE, !.hash = u, !.status = "available"]
  <2>1. new.exists /\ new.hash = u /\ new.parsed = None /\ new \in Rows
    BY DEF NoRow, Rows, Statuses
  <2> HIDE DEF new
  <2>2. row' = [row EXCEPT ![f] = new] /\ ~row[f].exists
    BY <1>5 DEF InsertsRow, new
  <2>3. /\ row' \in [Files -> Rows] /\ row'[f] = new
        /\ \A g \in Files \ {f} : row'[g] = row[g]
    BY <1>2, <2>1, <2>2 DEF IInv, TypeOK
  <2>4. PICK label \in {"done", "unlink"} : UploadGoes(u, label)
    BY <1>5
  <2>5. label \in Stages \cup Ends /\ (label \in Stages => label = "unlink")
    BY DEF Stages, Ends
  <2>6. chunks[f] = {} /\ UNCHANGED chunks
    BY <1>1, <1>2, <2>2 DEF IInv, ChunksHaveDocuments, UploadFrame
  <2>7. f \notin overlap => SourceMatches(f)'
    BY <1>1, <1>2, <2>1, <2>3, <2>6 DEF SourceMatches
  <2>8. file' \in [Files -> Uploads \cup {None, Partial}]
    BY <1>1 DEF IInv, TypeOK
  <2> QED
    BY <1>1, <1>2, <2>1, <2>2, <2>3, <2>4, <2>5, <2>7, <2>8, UploadStep
<1> QED
  BY <1>4, <1>5 DEF create_raw_document

LEMMA UnlinkKeeps ==
    ASSUME IInv, NEW u \in Uploads, unlink(u)
    PROVE  UploadGoesOn
<1> PICK f : f = upload[u].file
  OBVIOUS
<1>1. /\ UploadAt(u, "unlink") /\ UnderWay(u) /\ UploadFrame /\ Quietly
      /\ UNCHANGED <<row, overlap>>
      /\ file' = [file EXCEPT ![f] = None]
  BY DEF unlink, UploadAt, UnderWay
<1>2. PICK label \in {"disowned", "done"} :
          UploadGoes(u, label) /\ (label = "disowned" <=> row[f].hash = u)
  BY DEF unlink
<1>3. /\ f \in Files
      /\ f \notin overlap /\ Trusted(f) => row[f].hash = u
      /\ ~row[f].exists => row[f].hash = None
  BY <1>1, AloneWithItsFile
<1>4. label \in Stages \cup Ends /\ label \notin Stages
  BY DEF Stages, Ends
<1>5. /\ \A g \in Files \ {f} : file'[g] = file[g]
      /\ file'[f] = None /\ file' \in [Files -> Uploads \cup {None, Partial}]
      /\ row' \in [Files -> Rows]
  BY <1>1, <1>3 DEF IInv, TypeOK
<1>6. upload'[u].pc = label
  BY <1>1, <1>2, <1>4, UploadMoves
<1>7. f \notin overlap => ~Trusted(f)'
  <2>1. Trusted(f)' => Trusted(f)
    BY <1>1, <1>2, <1>4, SameTrust
  <2>2. row[f].hash = u => ~Trusted(f)'
    BY <1>1, <1>2, <1>6 DEF Trusted, Disowned
  <2> QED
    BY <1>3, <2>1, <2>2
<1>8. f \notin overlap => SourceMatches(f)'
  BY <1>5, <1>7, BytesAssumption DEF SourceMatches
<1> QED
  BY <1>1, <1>2, <1>3, <1>4, <1>5, <1>8, UploadStep

LEMMA UploadStepKeeps ==
    ASSUME IInv, NEW u \in Uploads, UploadNext(u)
    PROVE  IInv'
BY UploadKeeps, BeginKeeps, WriteKeeps, DescribeKeeps, InsertRowKeeps, UnlinkKeeps
   DEF UploadNext

-----------------------------------------------------------------------------
(* Requests.  No row comes or goes, and the parsed text of one is its own. *)
RowsKeepTheirHash ==
    \A f \in Files :
        /\ row'[f].exists = row[f].exists /\ row'[f].hash = row[f].hash
        /\ \/ row'[f].parsed = row[f].parsed
           \/ ~Trusted(f)
           \/ row'[f].parsed = row[f].hash

(* A request that begins with a document has looked at nothing yet.        *)
LEMMA FreshRequest ==
    ASSUME NEW todo \in SUBSET Files,
           NEW operation \in {"none", "read", "ingest", "chunk"}
    PROVE  [NoRequest EXCEPT !.pc = "load", !.todo = todo, !.operation = operation]
              \in RequestStates
<1>1. 0 \in 0 .. MaxChunks
  BY DocumentsAssumption
<1> QED
  BY <1>1 DEF NoRequest, RequestStates

(* What a request relies on once it has moved, on the same document or the *)
(* next.                                                                   *)
RequestIsReady(r) ==
    /\ request'[r].pc \notin {"idle", "done"} =>
          request'[r].todo # {} /\ request'[r].todo \subseteq Documents
    /\ request'[r].pc = "verdict" => request'[r].found # None
    /\ request'[r].pc \in {"split", "parsed", "positions", "insert"} =>
          request'[r].text \in Uploads
    /\ \A f \in Files :
          /\ request'[r].pc \in {"split", "parsed", "existing", "positions", "insert"}
          /\ Document(r)' = f /\ Trusted(f)
          => request'[r].text \in {None, row[f].hash}
    /\ request'[r].pc \in Early => request'[r].checked = 0
    /\ request'[r].pc = "positions" => request'[r].checked < request'[r].size
    /\ request'[r].pc = "insert" => request'[r].checked = request'[r].size
    /\ \A f \in Files : \A chunk \in chunks[f] :
          /\ request'[r].pc \in {"positions", "insert"}
          /\ Document(r)' = f /\ chunk.position <= request'[r].checked
          => r \in chunk.rivals

RequestGoesOn(r) ==
    /\ RequestFrame /\ UNCHANGED chunks
    /\ row' \in [Files -> Rows] /\ RowsKeepTheirHash
    /\ faults' \in 0..MaxFaults
    /\ request' \in [Requests -> RequestStates]
    /\ \A q \in Requests \ {r} : request'[q] = request[q]
    /\ RequestIsReady(r)

LEMMA RequestKeeps ==
    ASSUME IInv, NEW r \in Requests, RequestGoesOn(r)
    PROVE  IInv'
<1>1. /\ UNCHANGED <<file, upload, overlap, stops, chunks>>
      /\ row' \in [Files -> Rows] /\ RowsKeepTheirHash /\ RequestIsReady(r)
      /\ request' \in [Requests -> RequestStates]
      /\ \A q \in Requests \ {r} : request'[q] = request[q]
  BY DEF RequestGoesOn, RequestFrame
<1>2. Documents' = Documents /\ \A f \in Files : Trusted(f)' = Trusted(f)
  BY <1>1 DEF Documents, RowsKeepTheirHash, Trusted, Disowned
<1>3. \A q \in Requests \ {r} : Document(q)' = Document(q)
  BY <1>1, SameDocument
<1>4. TypeOK'
  BY <1>1 DEF IInv, TypeOK, RequestGoesOn
<1>5. UploadsStoreAFile'
  BY <1>1 DEF IInv, UploadsStoreAFile
<1>6. UploadsAreAlone'
  <2>1. \A f \in Files : Storing(f)' = Storing(f) /\ Storing(f) \subseteq Uploads
    BY <1>1 DEF Storing, UnderWay
  <2>2. \A u \in Uploads : /\ UploadAt(u, "write")' = UploadAt(u, "write")
                           /\ UploadAt(u, "unlink")' = UploadAt(u, "unlink")
    BY <1>1 DEF UploadAt
  <2>3. \A f \in Files : row'[f].hash = row[f].hash
    BY <1>1 DEF RowsKeepTheirHash
  <2> QED
    BY <1>1, <1>2, <2>1, <2>2, <2>3 DEF IInv, UploadsAreAlone
<1>7. RequestsHaveDocuments'
  BY <1>1, <1>2 DEF IInv, RequestsHaveDocuments, RequestIsReady
<1>8. RequestsHaveText' /\ ChecksAreCounted'
  BY <1>1 DEF IInv, RequestsHaveText, ChecksAreCounted, RequestIsReady, RequestAt
<1>9. TextsMatchTheirRows'
  <2> SUFFICES ASSUME NEW q \in Requests, NEW f \in Files,
                      request'[q].pc \in {"split", "parsed", "existing", "positions", "insert"},
                      Document(q)' = f, Trusted(f)
               PROVE  request'[q].text \in {None, row'[f].hash}
    BY <1>2 DEF TextsMatchTheirRows
  <2>1. request'[q].text \in {None, row[f].hash}
    BY <1>1, <1>3 DEF IInv, TextsMatchTheirRows, RequestIsReady
  <2> QED
    BY <1>1, <2>1 DEF RowsKeepTheirHash
<1>10. RowsAreHashed' /\ RowsComeHashed' /\ ChunksHaveDocuments'
  BY <1>1 DEF IInv, RowsAreHashed, RowsComeHashed, ChunksHaveDocuments, RowsKeepTheirHash
<1>11. LookersAreRivals'
  BY <1>1, <1>3 DEF IInv, LookersAreRivals, HasLookedAt, RequestIsReady, RequestAt
<1>12. SourcesMatchTheirRows'
  <2> SUFFICES ASSUME NEW f \in Files, f \notin overlap
               PROVE  SourceMatches(f)'
    BY <1>1, FileByFile
  <2>1. SourceMatches(f)
    BY FileByFile DEF IInv
  <2> QED
    BY <1>1, <1>2, <2>1 DEF SourceMatches, RowsKeepTheirHash
<1>13. ChunksAreDuplicatedByRivalsOnly'
  BY <1>1 DEF IInv, ChunksAreDuplicatedByRivalsOnly
<1> QED
  BY <1>4, <1>5, <1>6, <1>7, <1>8, <1>9, <1>10, <1>11, <1>12, <1>13 DEF IInv

LEMMA SameRows ==
    ASSUME IInv, UNCHANGED row
    PROVE  row' \in [Files -> Rows] /\ RowsKeepTheirHash
BY DEF IInv, TypeOK, RowsKeepTheirHash

LEMMA FaultsAreCounted ==
    ASSUME IInv, Quietly \/ Fault
    PROVE  faults' \in 0..MaxFaults
BY DocumentsAssumption DEF IInv, TypeOK, Quietly, Fault

(* A request that ends relies on nothing. *)
LEMMA EndedRequest ==
    ASSUME IInv, NEW r \in Requests, RequestEnds(r), RequestFrame, UNCHANGED chunks,
           row' \in [Files -> Rows], RowsKeepTheirHash, Quietly \/ Fault
    PROVE  RequestGoesOn(r)
<1> DEFINE s == [NoRequest EXCEPT !.pc = "done"]
<1>1. s \in RequestStates /\ s.pc = "done"
  BY DocumentsAssumption DEF NoRequest, RequestStates
<1> HIDE DEF s
<1>2. /\ request' \in [Requests -> RequestStates] /\ request'[r].pc = "done"
      /\ \A q \in Requests \ {r} : request'[q] = request[q]
  BY <1>1 DEF IInv, TypeOK, RequestEnds, s
<1> QED
  BY <1>2, FaultsAreCounted DEF RequestGoesOn, RequestIsReady, Early

(* One that goes on with the document it is on. *)
LEMMA ReadyRequest ==
    ASSUME IInv, NEW r \in Requests, request[r].pc \notin {"idle", "done"},
           RequestFrame, UNCHANGED chunks,
           row' \in [Files -> Rows], RowsKeepTheirHash, Quietly \/ Fault,
           NEW s \in RequestStates, request' = [request EXCEPT ![r] = s],
           s.todo = request[r].todo,
           s.pc = "verdict" => s.found # None,
           s.pc \in {"split", "parsed", "positions", "insert"} => s.text \in Uploads,
           s.pc \in {"split", "parsed", "existing", "positions", "insert"}
           /\ Trusted(Document(r)) => s.text \in {None, row[Document(r)].hash},
           s.pc \in Early => s.checked = 0,
           s.pc = "positions" => s.checked < s.size,
           s.pc = "insert" => s.checked = s.size,
           s.pc \in {"positions", "insert"} =>
              \A chunk \in chunks[Document(r)] :
                  chunk.position <= s.checked => r \in chunk.rivals
    PROVE  RequestGoesOn(r)
<1>1. /\ request' \in [Requests -> RequestStates] /\ request'[r] = s
      /\ \A q \in Requests \ {r} : request'[q] = request[q]
  BY DEF IInv, TypeOK
<1>2. Document(r)' = Document(r)
  BY <1>1, SameDocument
<1>3. s.todo # {} /\ s.todo \subseteq Documents
  BY AtWork
<1>4. RequestIsReady(r)
  BY <1>1, <1>2, <1>3 DEF RequestIsReady
<1> QED
  BY <1>1, <1>4, FaultsAreCounted DEF RequestGoesOn

(* No position has been looked at before the first.                        *)
LEMMA NothingLookedAt ==
    ASSUME IInv, NEW f \in Files, NEW chunk \in chunks[f]
    PROVE  ~(chunk.position <= 0)
<1>1. chunk.position \in 1 .. MaxChunks
  BY DEF IInv, TypeOK, Chunks, Positions
<1> QED
  BY <1>1, DocumentsAssumption

(* A step that only moves on, to where no more is relied on. *)
LEMMA PlainMove ==
    ASSUME IInv, NEW r \in Requests, request[r].pc \notin {"idle", "done"},
           NEW label \in {"read", "convert", "positions", "next"},
           RequestGoes(r, label), RequestFrame, UNCHANGED chunks,
           row' \in [Files -> Rows], RowsKeepTheirHash, Quietly \/ Fault,
           label # "next" => request[r].pc \in Early,
           label = "positions" =>
              /\ request[r].size # 0
              /\ request[r].text \in Uploads
              /\ Trusted(Document(r)) => request[r].text = row[Document(r)].hash
    PROVE  RequestGoesOn(r)
<1> DEFINE s == [request[r] EXCEPT !.pc = label]
<1>1. request[r] \in RequestStates /\ s \in RequestStates /\ Document(r) \in Files
  <2>1. request[r] \in RequestStates /\ Document(r) \in Files
    BY AtWork
  <2> QED
    BY <2>1 DEF RequestStates
<1>2. s.pc = label /\ s.todo = request[r].todo /\ s.text = request[r].text
      /\ s.size = request[r].size /\ s.checked = request[r].checked
  BY <1>1 DEF RequestStates
<1>3. request' = [request EXCEPT ![r] = s]
  BY <1>1 DEF RequestGoes, IInv, TypeOK
<1>4. label # "next" => s.checked = 0
  BY <1>2 DEF IInv, ChecksAreCounted
<1>5. label = "positions" => s.checked < s.size
  BY <1>1, <1>2, <1>4, DocumentsAssumption DEF RequestStates
<1>6. \A chunk \in chunks[Document(r)] : label = "positions" => ~(chunk.position <= s.checked)
  BY <1>1, <1>4, NothingLookedAt
<1> HIDE DEF s
<1>7. "next" \notin Early
  BY DEF Early
<1> QED
  BY <1>1, <1>2, <1>3, <1>4, <1>5, <1>6, <1>7, ReadyRequest

(* The texts of IInv, as those of the document at work. *)
LEMMA TextAtWork ==
    ASSUME IInv, NEW r \in Requests,
           request[r].pc \in {"split", "parsed", "positions", "insert"}
    PROVE  /\ request[r].text \in Uploads
           /\ Trusted(Document(r)) => request[r].text = row[Document(r)].hash
<1>1. Document(r) \in Files
  BY AtWork
<1> QED
  BY <1>1, BytesAssumption DEF IInv, RequestsHaveText, TextsMatchTheirRows

LEMMA StartKeeps ==
    ASSUME IInv, NEW r \in Requests, get_corpus_raw_document_ids(r)
    PROVE  RequestGoesOn(r)
<1>1. PICK operation \in {"read", "ingest", "chunk"},
           todo \in {{f} : f \in Documents} \cup {Documents} :
          /\ todo # {}
          /\ request' = [request EXCEPT ![r] =
                 [NoRequest EXCEPT !.pc = "load", !.operation = operation, !.todo = todo]]
  BY DEF get_corpus_raw_document_ids
<1> DEFINE s == [NoRequest EXCEPT !.pc = "load", !.todo = todo, !.operation = operation]
<1>2. todo \subseteq Documents /\ todo \subseteq Files
  BY DEF Documents
<1>3. s \in RequestStates /\ s.pc = "load" /\ s.todo = todo /\ s.checked = 0
  BY <1>2, FreshRequest DEF NoRequest
<1> HIDE DEF s
<1>4. request' = [request EXCEPT ![r] = s]
  BY <1>1 DEF s
<1>5. /\ request' \in [Requests -> RequestStates] /\ request'[r] = s
      /\ \A q \in Requests \ {r} : request'[q] = request[q]
  BY <1>3, <1>4 DEF IInv, TypeOK
<1>6. RequestFrame /\ UNCHANGED <<row, chunks>> /\ Quietly
  BY DEF get_corpus_raw_document_ids
<1>7. RequestIsReady(r)
  BY <1>1, <1>2, <1>3, <1>5 DEF RequestIsReady
<1> QED
  BY <1>5, <1>6, <1>7, SameRows, FaultsAreCounted DEF RequestGoesOn

LEMMA LoadKeeps ==
    ASSUME IInv, NEW r \in Requests, get_raw_document_by_id(r)
    PROVE  RequestGoesOn(r)
<1> DEFINE s == [request[r] EXCEPT !.pc = "exists", !.status = row[Document(r)].status]
<1>1. /\ request[r].pc = "load" /\ RequestFrame /\ UNCHANGED <<row, chunks>> /\ Quietly
      /\ request' = [request EXCEPT ![r].pc = "exists",
                                    ![r].status = row[Document(r)].status]
  BY DEF get_raw_document_by_id, RequestAt
<1>2. request[r] \in RequestStates /\ row[Document(r)].status \in Statuses
      /\ request[r].checked = 0
  BY <1>1, AtWork DEF Rows, IInv, ChecksAreCounted, Early
<1>3. s \in RequestStates /\ s.pc = "exists" /\ s.todo = request[r].todo /\ s.checked = 0
  BY <1>1, <1>2 DEF RequestStates
<1>4. request' = [request EXCEPT ![r] = s]
  BY <1>1, <1>2 DEF IInv, TypeOK
<1> HIDE DEF s
<1> QED
  BY <1>1, <1>3, <1>4, SameRows, ReadyRequest

LEMMA VerdictKeeps ==
    ASSUME IInv, NEW r \in Requests, request[r].pc \in {"exists", "read"},
           NEW found \in Statuses, Verifies(r, found),
           RequestFrame, UNCHANGED <<row, chunks>>, Quietly \/ Fault
    PROVE  RequestGoesOn(r)
<1> DEFINE s == [request[r] EXCEPT !.pc = "verdict", !.found = found]
<1>1. request[r] \in RequestStates /\ request[r].checked = 0
  BY AtWork DEF IInv, ChecksAreCounted, Early
<1>2. s \in RequestStates /\ s.pc = "verdict" /\ s.todo = request[r].todo /\ s.found = found
      /\ s.checked = 0
  BY <1>1 DEF RequestStates
<1>3. request' = [request EXCEPT ![r] = s]
  BY <1>1 DEF Verifies, IInv, TypeOK
<1>4. found # None
  BY DEF Statuses, None
<1> HIDE DEF s
<1> QED
  BY <1>2, <1>3, <1>4, SameRows, ReadyRequest

LEMMA VerifyKeeps ==
    ASSUME IInv, NEW r \in Requests, verify_raw_document_source_srvc(r) \/ _hash_bytes(r)
    PROVE  RequestGoesOn(r)
<1>1. /\ request[r].pc \in {"exists", "read"} /\ request[r].pc \in Early
      /\ RequestFrame /\ UNCHANGED <<row, chunks>> /\ (Quietly \/ Fault)
  BY DEF verify_raw_document_source_srvc, _hash_bytes, RequestAt, Early
<1>2. \/ RequestGoes(r, "read")
      \/ \E found \in {"missing", "error", "available", "changed"} : Verifies(r, found)
  <2>1. CASE verify_raw_document_source_srvc(r)
    BY <2>1 DEF verify_raw_document_source_srvc
  <2>2. CASE _hash_bytes(r)
    BY <2>2 DEF _hash_bytes
  <2> QED
    BY <2>1, <2>2
<1>3. CASE RequestGoes(r, "read")
  BY <1>1, <1>3, SameRows, PlainMove
<1>4. CASE \E found \in {"missing", "error", "available", "changed"} : Verifies(r, found)
  BY <1>1, <1>4, VerdictKeeps DEF Statuses
<1> QED
  BY <1>2, <1>3, <1>4

(* The status of one row is written.                                       *)
LEMMA StatusIsWritten ==
    ASSUME IInv, NEW f \in Files, NEW status \in Statuses,
           row' = [row EXCEPT ![f].status = status]
    PROVE  /\ row' \in [Files -> Rows]
           /\ \A g \in Files : row'[g].exists = row[g].exists /\ row'[g].hash = row[g].hash
                               /\ row'[g].parsed = row[g].parsed
<1> DEFINE new == [row[f] EXCEPT !.status = status]
<1>1. row \in [Files -> Rows]
  BY DEF IInv, TypeOK
<1>2. new \in Rows /\ new.exists = row[f].exists /\ new.hash = row[f].hash
      /\ new.parsed = row[f].parsed
  BY <1>1 DEF Rows
<1>3. row' = [row EXCEPT ![f] = new]
  BY <1>1
<1> HIDE DEF new
<1> QED
  BY <1>1, <1>2, <1>3

LEMMA WritesKeeps ==
    ASSUME IInv, NEW r \in Requests, WritesVerdict(r) \/ VerdictFails(r)
    PROVE  RequestGoesOn(r)
<1> DEFINE f == Document(r)
<1>1. /\ request[r].pc = "verdict" /\ request[r].pc \in Early
      /\ RequestFrame /\ (Quietly \/ Fault) /\ UNCHANGED chunks
  BY DEF WritesVerdict, VerdictFails, RequestAt, Early
<1>2. /\ f \in Files /\ row[f] \in Rows /\ row[f].exists /\ request[r] \in RequestStates
      /\ request[r].found \in Statuses /\ row[f].status \in Statuses
      /\ row[f].parsed \in Uploads \cup {None} /\ request[r].checked = 0
  BY <1>1, AtWork DEF IInv, RequestsHaveText, RequestAt, RequestStates, Rows, ChecksAreCounted
<1>3. UNCHANGED row \/ \E status \in Statuses : row' = [row EXCEPT ![f].status = status]
  <2>1. "error" \in Statuses
    BY DEF Statuses
  <2>2. CASE WritesVerdict(r)
    BY <1>2, <2>2 DEF WritesVerdict
  <2>3. CASE VerdictFails(r)
    BY <1>2, <2>1, <2>3 DEF VerdictFails
  <2> QED
    BY <2>2, <2>3
<1>4. row' \in [Files -> Rows] /\ RowsKeepTheirHash
  <2>1. CASE UNCHANGED row
    BY <2>1, SameRows
  <2>2. CASE \E status \in Statuses : row' = [row EXCEPT ![f].status = status]
    BY <1>2, <2>2, StatusIsWritten DEF RowsKeepTheirHash
  <2> QED
    BY <1>3, <2>1, <2>2
<1>5. \/ RequestGoes(r, "next") \/ RequestGoes(r, "convert") \/ RequestEnds(r)
      \/ request' = [request EXCEPT ![r].pc = "existing", ![r].text = row[f].parsed]
  <2>1. CASE WritesVerdict(r)
    BY <2>1 DEF WritesVerdict
  <2>2. CASE VerdictFails(r)
    BY <2>2 DEF VerdictFails
  <2> QED
    BY <2>1, <2>2
<1>6. CASE RequestGoes(r, "next") \/ RequestGoes(r, "convert")
  BY <1>1, <1>4, <1>6, PlainMove
<1>7. CASE RequestEnds(r)
  BY <1>1, <1>4, <1>7, EndedRequest
<1>8. CASE request' = [request EXCEPT ![r].pc = "existing", ![r].text = row[f].parsed]
  <2> DEFINE s == [request[r] EXCEPT !.pc = "existing", !.text = row[f].parsed]
  <2>1. s \in RequestStates /\ s.pc = "existing" /\ s.todo = request[r].todo
        /\ s.text = row[f].parsed /\ s.checked = 0
    BY <1>1, <1>2 DEF RequestStates
  <2>2. request' = [request EXCEPT ![r] = s]
    BY <1>2, <1>8 DEF IInv, TypeOK
  <2>3. Trusted(f) => row[f].parsed \in {None, row[f].hash}
    BY <1>2, FileByFile DEF IInv, SourceMatches, Trusted
  <2> HIDE DEF s
  <2> QED
    BY <1>1, <1>4, <2>1, <2>2, <2>3, ReadyRequest
<1> QED
  BY <1>5, <1>6, <1>7, <1>8

(* The file is still the one of the row when it is converted. *)
LEMMA ConvertKeeps ==
    ASSUME IInv, NEW r \in Requests, _convert_raw_document_to_markdown(r)
    PROVE  RequestGoesOn(r)
<1> DEFINE f == Document(r)
<1>1. /\ request[r].pc = "convert" /\ RequestFrame /\ Quietly /\ UNCHANGED <<row, chunks>>
  BY DEF _convert_raw_document_to_markdown, RequestAt
<1>2. /\ f \in Files /\ request[r] \in RequestStates /\ request[r].checked = 0
      /\ Trusted(f) => file[f] = row[f].hash
  BY <1>1, AtWork, FileByFile
     DEF IInv, SourceMatches, Trusted, ChecksAreCounted, Early
<1>3. CASE RequestEnds(r)
  BY <1>1, <1>3, SameRows, EndedRequest
<1>4. CASE file[f] \in Uploads
           /\ request' = [request EXCEPT ![r].pc = "split", ![r].text = file[f]]
  <2> DEFINE s == [request[r] EXCEPT !.pc = "split", !.text = file[f]]
  <2>1. s \in RequestStates /\ s.pc = "split" /\ s.todo = request[r].todo /\ s.text = file[f]
        /\ s.checked = 0
    BY <1>1, <1>2, <1>4 DEF RequestStates
  <2>2. request' = [request EXCEPT ![r] = s]
    BY <1>2, <1>4 DEF IInv, TypeOK
  <2> HIDE DEF s
  <2> QED
    BY <1>1, <1>2, <1>4, <2>1, <2>2, SameRows, ReadyRequest
<1> QED
  BY <1>3, <1>4 DEF _convert_raw_document_to_markdown

LEMMA SplitKeeps ==
    ASSUME IInv, NEW r \in Requests, _chunk_cleaned_document(r)
    PROVE  RequestGoesOn(r)
<1>1. /\ request[r].pc = "split" /\ RequestFrame /\ Quietly /\ UNCHANGED <<row, chunks>>
      /\ \/ RequestEnds(r)
         \/ \E size \in 0 .. MaxChunks :
               request' = [request EXCEPT ![r].pc = "parsed", ![r].size = size]
  BY DEF _chunk_cleaned_document, RequestAt
<1>2. CASE RequestEnds(r)
  BY <1>1, <1>2, SameRows, EndedRequest
<1>3. ASSUME NEW size \in 0 .. MaxChunks,
             request' = [request EXCEPT ![r].pc = "parsed", ![r].size = size]
      PROVE  RequestGoesOn(r)
  <2> DEFINE s == [request[r] EXCEPT !.pc = "parsed", !.size = size]
  <2>1. /\ request[r] \in RequestStates /\ request[r].checked = 0
        /\ request[r].text \in Uploads
        /\ Trusted(Document(r)) => request[r].text = row[Document(r)].hash
    BY <1>1, AtWork, TextAtWork DEF IInv, ChecksAreCounted, Early
  <2>2. s \in RequestStates /\ s.pc = "parsed" /\ s.todo = request[r].todo
        /\ s.text = request[r].text /\ s.checked = 0
    BY <1>1, <2>1 DEF RequestStates
  <2>3. request' = [request EXCEPT ![r] = s]
    BY <1>3, <2>1 DEF IInv, TypeOK
  <2> HIDE DEF s
  <2> QED
    BY <1>1, <2>1, <2>2, <2>3, SameRows, ReadyRequest
<1> QED
  BY <1>1, <1>2, <1>3

LEMMA ParsedKeeps ==
    ASSUME IInv, NEW r \in Requests, update_raw_document_parsed_content(r)
    PROVE  RequestGoesOn(r)
<1> DEFINE f == Document(r)
<1>1. /\ request[r].pc = "parsed" /\ request[r].pc \in Early
      /\ RequestFrame /\ UNCHANGED chunks
  BY DEF update_raw_document_parsed_content, RequestAt, Early
<1>2. /\ f \in Files /\ row[f] \in Rows /\ row[f].exists /\ request[r].text \in Uploads
      /\ Trusted(f) => request[r].text = row[f].hash
  BY <1>1, AtWork, TextAtWork
<1>3. StoresParsed(r) => row' \in [Files -> Rows] /\ RowsKeepTheirHash
  <2> HAVE StoresParsed(r)
  <2>1. row \in [Files -> Rows]
    BY DEF IInv, TypeOK
  <2> DEFINE new == [row[f] EXCEPT !.parsed = request[r].text]
  <2>2. new \in Rows /\ new.exists = row[f].exists /\ new.hash = row[f].hash
        /\ new.parsed = request[r].text
    BY <1>2 DEF Rows
  <2>3. row' = [row EXCEPT ![f] = new]
    BY <1>2, <2>1 DEF StoresParsed
  <2> HIDE DEF new
  <2> QED
    BY <1>2, <2>1, <2>2, <2>3 DEF RowsKeepTheirHash
<1>4. row' \in [Files -> Rows] /\ RowsKeepTheirHash
  BY <1>3, SameRows DEF update_raw_document_parsed_content
<1>5. CASE Fault /\ RequestEnds(r)
  BY <1>1, <1>4, <1>5, EndedRequest
<1>6. CASE Quietly /\ RequestGoes(r, AfterParsing(request[r].size))
  <2>1. CASE request[r].size = 0
    <3>1. RequestGoes(r, "next")
      BY <1>6, <2>1 DEF AfterParsing
    <3> QED
      BY <1>1, <1>4, <1>6, <3>1, PlainMove
  <2>2. CASE request[r].size # 0
    <3>1. RequestGoes(r, "positions")
      BY <1>6, <2>2 DEF AfterParsing
    <3> QED
      BY <1>1, <1>2, <1>4, <1>6, <2>2, <3>1, PlainMove
  <2> QED
    BY <2>1, <2>2
<1> QED
  BY <1>5, <1>6 DEF update_raw_document_parsed_content

LEMMA ChunkKeeps ==
    ASSUME IInv, NEW r \in Requests, chunk_raw_document_srvc(r)
    PROVE  RequestGoesOn(r)
<1> DEFINE f == Document(r)
<1>1. /\ request[r].pc = "existing" /\ RequestFrame /\ Quietly /\ UNCHANGED <<row, chunks>>
  BY DEF chunk_raw_document_srvc, RequestAt
<1>2. CASE RequestEnds(r)
  BY <1>1, <1>2, SameRows, EndedRequest
<1>3. ASSUME request[r].text # None, NEW size \in 0 .. MaxChunks,
             request' = [request EXCEPT ![r].pc = AfterParsing(size), ![r].size = size]
      PROVE  RequestGoesOn(r)
  <2> DEFINE s == [request[r] EXCEPT !.pc = AfterParsing(size), !.size = size]
  <2>1. /\ f \in Files /\ request[r] \in RequestStates /\ request[r].checked = 0
        /\ request[r].text \in Uploads
        /\ Trusted(f) => request[r].text = row[f].hash
    BY <1>1, <1>3, AtWork DEF IInv, ChecksAreCounted, Early, TextsMatchTheirRows, RequestStates
  <2>2. AfterParsing(size) \in {"next", "positions"} /\ (AfterParsing(size) = "positions" => size # 0)
    BY DEF AfterParsing
  <2>3. s \in RequestStates /\ s.pc = AfterParsing(size) /\ s.todo = request[r].todo
        /\ s.text = request[r].text /\ s.checked = 0 /\ s.size = size
    BY <2>1, <2>2 DEF RequestStates
  <2>4. request' = [request EXCEPT ![r] = s]
    BY <1>3, <2>1 DEF IInv, TypeOK
  <2>5. s.pc = "positions" => s.checked < s.size
    BY <2>2, <2>3, DocumentsAssumption
  <2>6. \A chunk \in chunks[f] : ~(chunk.position <= s.checked)
    BY <2>1, <2>3, NothingLookedAt
  <2> HIDE DEF s
  <2> QED
    BY <1>1, <2>1, <2>2, <2>3, <2>4, <2>5, <2>6, SameRows, ReadyRequest
<1> QED
  BY <1>2, <1>3 DEF chunk_raw_document_srvc, _load_parsed_document

(* Of the chunks at positions looked at, the last has just been ruled out. *)
LEMMA LookKeeps ==
    ASSUME IInv, NEW r \in Requests, ensure_no_duplicate_positions_in_db(r)
    PROVE  RequestGoesOn(r)
<1> DEFINE f == Document(r)
           looked == request[r].checked + 1
<1>1. /\ RequestAt(r, "positions") /\ request[r].pc = "positions"
      /\ RequestFrame /\ Quietly /\ UNCHANGED <<row, chunks>>
  BY DEF ensure_no_duplicate_positions_in_db, RequestAt
<1>2. CASE RequestEnds(r)
  BY <1>1, <1>2, SameRows, EndedRequest
<1>3. CASE LooksAtNext(r) /\ \A chunk \in chunks[f] : chunk.position # looked
  <2> DEFINE label == IF looked = request[r].size THEN "insert" ELSE "positions"
             s == [request[r] EXCEPT !.checked = looked, !.pc = label]
  <2>1. /\ f \in Files /\ request[r] \in RequestStates
        /\ request[r].checked < request[r].size
        /\ request[r].checked \in Nat /\ request[r].size \in 0 .. MaxChunks
        /\ request[r].text \in Uploads
        /\ Trusted(f) => request[r].text = row[f].hash
    BY <1>1, AtWork, TextAtWork, DocumentsAssumption DEF IInv, ChecksAreCounted, RequestStates
  <2>2. looked \in 0 .. MaxChunks /\ label \in {"insert", "positions"}
    BY <2>1, DocumentsAssumption
  <2>3. s \in RequestStates /\ s.pc = label /\ s.todo = request[r].todo
        /\ s.text = request[r].text /\ s.checked = looked /\ s.size = request[r].size
    BY <2>1, <2>2 DEF RequestStates
  <2>4. request' = [request EXCEPT ![r] = s]
    BY <1>3, <2>1 DEF IInv, TypeOK, LooksAtNext
  <2>5. /\ s.pc = "positions" => s.checked < s.size
        /\ s.pc = "insert" => s.checked = s.size
    BY <2>1, <2>3, DocumentsAssumption
  <2>6. \A chunk \in chunks[f] : chunk.position <= s.checked => r \in chunk.rivals
    <3> SUFFICES ASSUME NEW chunk \in chunks[f], chunk.position <= s.checked
                 PROVE  r \in chunk.rivals
      OBVIOUS
    <3>1. chunk.position \in Nat /\ chunk.position # looked
      BY <1>3, <2>1, DocumentsAssumption DEF IInv, TypeOK, Chunks, Positions
    <3>2. chunk.position <= request[r].checked
      BY <2>1, <2>3, <3>1
    <3> QED
      BY <1>1, <2>1, <3>2 DEF IInv, LookersAreRivals, HasLookedAt
  <2>7. label \notin Early /\ label # "verdict"
    BY DEF Early
  <2> HIDE DEF s, label, looked
  <2> QED
    BY <1>1, <2>1, <2>2, <2>3, <2>4, <2>5, <2>6, <2>7, SameRows, ReadyRequest
<1> QED
  BY <1>2, <1>3 DEF ensure_no_duplicate_positions_in_db

LEMMA NextDocumentKeeps ==
    ASSUME IInv, NEW r \in Requests, ingest_corpus_srvc(r)
    PROVE  RequestGoesOn(r)
<1> DEFINE rest == request[r].todo \ {Document(r)}
           s == [NoRequest EXCEPT !.pc = "load", !.todo = rest,
                                  !.operation = request[r].operation]
<1>1. /\ request[r].pc = "next" /\ RequestFrame /\ Quietly /\ UNCHANGED <<row, chunks>>
      /\ RequestEnds(r) \/ (rest # {} /\ request' = [request EXCEPT ![r] = s])
  BY DEF ingest_corpus_srvc, RequestAt
<1>2. CASE RequestEnds(r)
  BY <1>1, <1>2, SameRows, EndedRequest
<1>3. CASE rest # {} /\ request' = [request EXCEPT ![r] = s]
  <2>1. rest \subseteq Documents /\ rest \subseteq Files
        /\ request[r].operation \in {"none", "read", "ingest", "chunk"}
    BY <1>1, AtWork DEF RequestStates
  <2> HIDE DEF rest
  <2>2. s \in RequestStates /\ s.pc = "load" /\ s.todo = rest /\ s.checked = 0
    BY <2>1, FreshRequest DEF NoRequest
  <2> HIDE DEF s
  <2>3. /\ request' \in [Requests -> RequestStates] /\ request'[r] = s
        /\ \A q \in Requests \ {r} : request'[q] = request[q]
    BY <1>3, <2>2 DEF IInv, TypeOK
  <2>4. RequestIsReady(r)
    BY <1>3, <2>1, <2>2, <2>3 DEF RequestIsReady
  <2> QED
    BY <1>1, <2>3, <2>4, SameRows, FaultsAreCounted DEF RequestGoesOn
<1> QED
  BY <1>1, <1>2, <1>3

(* What is inserted is counted by position; whoever has looked at a        *)
(* position of it by then is among its rivals.                             *)
LEMMA InsertedChunks ==
    ASSUME IInv, NEW r \in Requests, RequestAt(r, "insert")
    PROVE  /\ NewChunks(r) \subseteq Chunks
           /\ \A chunk \in NewChunks(r) :
                 /\ chunk.by = r /\ chunk.text = request[r].text
                 /\ HasLookedAt(r, Document(r), chunk.position)
                 /\ \A q \in Requests \ {r} :
                       HasLookedAt(q, Document(r), chunk.position) => q \in chunk.rivals
           /\ \A one, other \in NewChunks(r) : one.position = other.position => one = other
<1> DEFINE rivals(p) == {q \in Requests \ {r} : HasLookedAt(q, Document(r), p)}
           new(p) == [position |-> p, by |-> r, text |-> request[r].text, rivals |-> rivals(p)]
<1>1. /\ request[r].size \in 0 .. MaxChunks /\ request[r].checked = request[r].size
      /\ request[r].text \in Uploads
  BY AtWork DEF IInv, RequestStates, ChecksAreCounted, RequestsHaveText, RequestAt
<1>2. ASSUME NEW p \in 1 .. request[r].size
      PROVE  p \in Positions /\ HasLookedAt(r, Document(r), p)
  <2>1. p \in 1 .. MaxChunks /\ p <= request[r].checked
    BY <1>1, DocumentsAssumption
  <2> QED
    BY <2>1 DEF Positions, HasLookedAt
<1>3. \A p : rivals(p) \subseteq Requests
  OBVIOUS
<1>4. \A chunk \in NewChunks(r) : \E p \in 1 .. request[r].size : chunk = new(p)
  BY DEF NewChunks
<1>5. \A p : /\ new(p).position = p /\ new(p).by = r /\ new(p).text = request[r].text
             /\ new(p).rivals = rivals(p)
  OBVIOUS
<1>6. ASSUME NEW p \in 1 .. request[r].size
      PROVE  new(p) \in Chunks
  BY <1>1, <1>2, <1>3 DEF Chunks
<1>7. ASSUME NEW p, NEW q \in Requests \ {r}, HasLookedAt(q, Document(r), p)
      PROVE  q \in rivals(p)
  BY <1>7
<1> HIDE DEF new, rivals
<1> QED
  BY <1>2, <1>4, <1>5, <1>6, <1>7

(* Chunks join those of requests that had looked at their positions.       *)
LEMMA InsertedBeside ==
    ASSUME IInv, NEW r \in Requests, RequestAt(r, "insert"), InsertsChunks(r),
           RequestFrame, UNCHANGED row, Quietly \/ Fault,
           RequestGoes(r, "next") \/ RequestEnds(r)
    PROVE  IInv'
<1> PICK f : f = Document(r)
  OBVIOUS
<1>1. /\ f \in Files /\ row[f].exists /\ request[r] \in RequestStates
      /\ request[r].todo \subseteq Documents /\ request[r].todo # {}
      /\ Trusted(f) => request[r].text = row[f].hash
  BY AtWork, TextAtWork DEF RequestAt
<1>2. /\ chunks' = [chunks EXCEPT ![f] = @ \cup NewChunks(r)]
      /\ chunks \in [Files -> SUBSET Chunks]
  BY DEF InsertsChunks, IInv, TypeOK
<1>3. /\ chunks'[f] = chunks[f] \cup NewChunks(r)
      /\ \A g \in Files \ {f} : chunks'[g] = chunks[g]
      /\ chunks' \in [Files -> SUBSET Chunks]
  BY <1>1, <1>2, InsertedChunks
<1>4. UNCHANGED <<file, row, upload, overlap, stops>> /\ Documents' = Documents
      /\ \A g \in Files : Trusted(g)' = Trusted(g)
  BY DEF RequestFrame, Documents, Trusted, Disowned
<1>5. /\ request' \in [Requests -> RequestStates]
      /\ \A q \in Requests \ {r} : request'[q] = request[q]
      /\ request'[r].pc = "done"
         \/ (request'[r].pc = "next" /\ request'[r].todo = request[r].todo)
  <2>1. CASE RequestGoes(r, "next")
    BY <1>1, <2>1 DEF IInv, TypeOK, RequestGoes, RequestStates
  <2>2. CASE RequestEnds(r)
    <3> DEFINE s == [NoRequest EXCEPT !.pc = "done"]
    <3>1. s \in RequestStates /\ s.pc = "done"
      BY DocumentsAssumption DEF NoRequest, RequestStates
    <3> HIDE DEF s
    <3> QED
      BY <2>2, <3>1 DEF IInv, TypeOK, RequestEnds, s
  <2> QED
    BY <2>1, <2>2
<1>6. \A q \in Requests \ {r} : Document(q)' = Document(q)
  BY <1>5, SameDocument
<1>7. TypeOK'
  BY <1>3, <1>4, <1>5, FaultsAreCounted DEF IInv, TypeOK
<1>8. UploadsStoreAFile' /\ UploadsAreAlone'
  BY <1>4 DEF IInv, UploadsStoreAFile, UploadsAreAlone, Storing, UploadAt, UnderWay
<1>9. RequestsHaveDocuments' /\ RequestsHaveText' /\ ChecksAreCounted'
  BY <1>1, <1>4, <1>5 DEF IInv, RequestsHaveDocuments, RequestsHaveText, ChecksAreCounted,
     RequestAt, Early
<1>10. TextsMatchTheirRows'
  BY <1>4, <1>5, <1>6 DEF IInv, TextsMatchTheirRows
<1>11. RowsAreHashed' /\ RowsComeHashed' /\ ChunksHaveDocuments'
  BY <1>1, <1>3, <1>4 DEF IInv, RowsAreHashed, RowsComeHashed, ChunksHaveDocuments
<1>12. LookersAreRivals'
  <2> SUFFICES ASSUME NEW q \in Requests, NEW g \in Files, NEW chunk \in chunks'[g],
                      HasLookedAt(q, g, chunk.position)'
               PROVE  q \in chunk.rivals
    BY DEF LookersAreRivals
  <2>1. q # r /\ HasLookedAt(q, g, chunk.position)
    BY <1>5, <1>6 DEF HasLookedAt, RequestAt
  <2>2. chunk \in chunks[g] \/ (g = f /\ chunk \in NewChunks(r))
    BY <1>3
  <2> QED
    BY <2>1, <2>2, InsertedChunks DEF IInv, LookersAreRivals
<1>13. SourcesMatchTheirRows'
  <2> SUFFICES ASSUME NEW g \in Files, g \notin overlap
               PROVE  SourceMatches(g)'
    BY <1>4, FileByFile
  <2>1. SourceMatches(g)
    BY FileByFile DEF IInv
  <2>2. Trusted(g) => \A chunk \in chunks'[g] : chunk.text = row[g].hash
    BY <1>1, <1>3, <2>1, InsertedChunks DEF SourceMatches
  <2> QED
    BY <1>4, <2>1, <2>2 DEF SourceMatches
<1>14. ChunksAreDuplicatedByRivalsOnly'
  <2> SUFFICES ASSUME NEW g \in Files, NEW one \in chunks'[g], NEW other \in chunks'[g],
                      one # other, one.position = other.position
               PROVE  one.by \in other.rivals \/ other.by \in one.rivals
    BY DEF ChunksAreDuplicatedByRivalsOnly
  <2>1. \A new \in NewChunks(r), old \in chunks[f] :
           new.position = old.position => new.by \in old.rivals
    BY <1>1, InsertedChunks DEF IInv, LookersAreRivals
  <2>2. \A chunk \in chunks'[g] : chunk \in chunks[g] \/ (g = f /\ chunk \in NewChunks(r))
    BY <1>3
  <2>3. CASE one \in chunks[g] /\ other \in chunks[g]
    BY <2>3 DEF IInv, ChunksAreDuplicatedByRivalsOnly
  <2>4. CASE g = f /\ one \in NewChunks(r) /\ other \in NewChunks(r)
    BY <2>4, InsertedChunks
  <2> QED
    BY <2>1, <2>2, <2>3, <2>4
<1> QED
  BY <1>7, <1>8, <1>9, <1>10, <1>11, <1>12, <1>13, <1>14 DEF IInv

LEMMA InsertKeeps ==
    ASSUME IInv, NEW r \in Requests, bulk_create_document_chunks(r)
    PROVE  IInv'
<1>1. /\ RequestAt(r, "insert") /\ RequestFrame /\ UNCHANGED row /\ (Quietly \/ Fault)
      /\ RequestGoes(r, "next") \/ RequestEnds(r)
      /\ InsertsChunks(r) \/ (UNCHANGED chunks /\ RequestEnds(r))
  BY DEF bulk_create_document_chunks
<1>2. CASE UNCHANGED chunks /\ RequestEnds(r)
  BY <1>1, <1>2, SameRows, EndedRequest, RequestKeeps
<1>3. CASE InsertsChunks(r)
  BY <1>1, <1>3, InsertedBeside
<1> QED
  BY <1>1, <1>2, <1>3

LEMMA RequestStepKeeps ==
    ASSUME IInv, NEW r \in Requests, RequestNext(r)
    PROVE  IInv'
BY RequestKeeps, StartKeeps, LoadKeeps, VerifyKeeps, WritesKeeps, ConvertKeeps, SplitKeeps,
   ParsedKeeps, ChunkKeeps, LookKeeps, InsertKeeps, NextDocumentKeeps DEF RequestNext

-----------------------------------------------------------------------------
(* Edits and restarts: the requests as they are, or gone.                  *)
LEMMA EditKeeps ==
    ASSUME IInv, NEW f \in Files, update_raw_document(f)
    PROVE  IInv'
<1>1. PICK status \in {"unverified", "available"} : row' = [row EXCEPT ![f].status = status]
  BY DEF update_raw_document
<1>2. UNCHANGED <<file, chunks, upload, request, overlap, stops, faults>>
  BY DEF update_raw_document, RequestFrame
<1>3. /\ row' \in [Files -> Rows]
      /\ \A g \in Files : row'[g].exists = row[g].exists /\ row'[g].hash = row[g].hash
                          /\ row'[g].parsed = row[g].parsed
  <2>1. status \in Statuses
    BY DEF Statuses
  <2> QED
    BY <1>1, <2>1, StatusIsWritten
<1>4. Documents' = Documents /\ \A q \in Requests : Document(q)' = Document(q)
  BY <1>2, <1>3 DEF Documents, Document
<1>5. \A g \in Files : Trusted(g)' = Trusted(g)
  BY <1>2, <1>3 DEF Trusted, Disowned
<1>6. TypeOK'
  BY <1>2, <1>3 DEF IInv, TypeOK
<1>7. UploadsStoreAFile'
  BY <1>2 DEF IInv, UploadsStoreAFile
<1>8. UploadsAreAlone'
  BY <1>2, <1>3, <1>5 DEF IInv, UploadsAreAlone, Storing, UploadAt, UnderWay
<1>9. RequestsHaveDocuments' /\ RequestsHaveText' /\ ChecksAreCounted'
  BY <1>2, <1>4 DEF IInv, RequestsHaveDocuments, RequestsHaveText, ChecksAreCounted, RequestAt
<1>10. TextsMatchTheirRows'
  BY <1>2, <1>3, <1>4, <1>5 DEF IInv, TextsMatchTheirRows
<1>11. RowsAreHashed' /\ RowsComeHashed' /\ ChunksHaveDocuments'
  BY <1>2, <1>3 DEF IInv, RowsAreHashed, RowsComeHashed, ChunksHaveDocuments
<1>12. LookersAreRivals' /\ ChunksAreDuplicatedByRivalsOnly'
  BY <1>2, <1>4 DEF IInv, LookersAreRivals, HasLookedAt, RequestAt, ChunksAreDuplicatedByRivalsOnly
<1>13. SourcesMatchTheirRows'
  <2>1. \A g \in Files \ overlap : SourceMatches(g)
    BY FileByFile DEF IInv
  <2>2. \A g \in Files \ overlap' : SourceMatches(g)'
    BY <1>2, <1>3, <1>5, <2>1 DEF SourceMatches
  <2> QED
    BY <2>2, FileByFile
<1> QED
  BY <1>6, <1>7, <1>8, <1>9, <1>10, <1>11, <1>12, <1>13 DEF IInv

(* A file cut off is one that was being written, where no row can be       *)
(* relied on.                                                              *)
LEMMA StopKeeps == IInv /\ Stop => IInv'
<1> SUFFICES ASSUME IInv, Stop PROVE IInv'
  OBVIOUS
<1>1. stops' = stops + 1 /\ stops < MaxStops /\ UNCHANGED <<row, chunks, overlap, faults>>
  BY DEF Stop
<1>2. PICK cut \in SUBSET {upload[u].file : u \in {v \in Uploads : UploadAt(v, "write")}} :
         file' = [f \in Files |-> IF f \in cut THEN Partial ELSE file[f]]
  BY DEF Stop
<1>3. \A u \in Uploads :
         upload'[u] = IF UnderWay(u) THEN [upload[u] EXCEPT !.pc = "stopped"] ELSE upload[u]
  BY DEF Stop
<1>4. /\ upload' \in [Uploads -> UploadStates]
      /\ \A u \in Uploads : /\ upload'[u].file = upload[u].file
                            /\ upload'[u].pc = IF UnderWay(u) THEN "stopped" ELSE upload[u].pc
  <2>1. upload \in [Uploads -> UploadStates]
    BY DEF IInv, TypeOK
  <2>2. \A u \in Uploads : /\ [upload[u] EXCEPT !.pc = "stopped"] \in UploadStates
                           /\ [upload[u] EXCEPT !.pc = "stopped"].pc = "stopped"
                           /\ [upload[u] EXCEPT !.pc = "stopped"].file = upload[u].file
    BY <2>1 DEF UploadStates
  <2>3. upload' = [u \in Uploads |->
                     IF UnderWay(u) THEN [upload[u] EXCEPT !.pc = "stopped"] ELSE upload[u]]
    BY DEF Stop
  <2> QED
    BY <1>3, <2>1, <2>2, <2>3
<1>5. /\ request' \in [Requests -> RequestStates]
      /\ \A r \in Requests : request'[r].pc \in {"idle", "done"}
  <2>1. request \in [Requests -> RequestStates]
    BY DEF IInv, TypeOK
  <2>2. /\ [NoRequest EXCEPT !.pc = "done"] \in RequestStates
        /\ [NoRequest EXCEPT !.pc = "done"].pc = "done"
    BY DocumentsAssumption DEF NoRequest, RequestStates
  <2> QED
    BY <2>1, <2>2 DEF Stop, RequestAt
<1>6. TypeOK'
  <2>1. stops' \in 0..MaxStops
    BY <1>1, DocumentsAssumption DEF IInv, TypeOK
  <2>2. file' \in [Files -> Uploads \cup {None, Partial}]
    BY <1>2 DEF IInv, TypeOK
  <2> QED
    BY <1>1, <1>4, <1>5, <2>1, <2>2 DEF IInv, TypeOK
<1>7. \A f \in Files : Storing(f)' = {}
  BY <1>4 DEF Storing, UnderWay
<1>8. UploadsStoreAFile' /\ UploadsAreAlone'
  BY <1>4, <1>7 DEF IInv, UploadsStoreAFile, UploadsAreAlone, UnderWay
<1>9. RequestsHaveDocuments' /\ RequestsHaveText' /\ ChecksAreCounted' /\ TextsMatchTheirRows'
      /\ LookersAreRivals'
  BY <1>5 DEF RequestsHaveDocuments, RequestsHaveText, ChecksAreCounted, TextsMatchTheirRows,
     LookersAreRivals, HasLookedAt, RequestAt, Early
<1>10. RowsAreHashed' /\ RowsComeHashed' /\ ChunksHaveDocuments'
       /\ ChunksAreDuplicatedByRivalsOnly'
  BY <1>1, <1>4 DEF IInv, RowsAreHashed, RowsComeHashed, ChunksHaveDocuments,
     ChunksAreDuplicatedByRivalsOnly, UnderWay
<1>11. \A f \in Files : Trusted(f)' <=> Trusted(f)
  <2>1. \A f \in Files : row[f].exists => row[f].hash \in Uploads
    BY DEF IInv, RowsAreHashed
  <2> QED
    BY <1>1, <1>4, <2>1 DEF Trusted, Disowned, UnderWay
<1>12. \A f \in cut : f \notin overlap => ~Trusted(f)
  <2> SUFFICES ASSUME NEW u \in Uploads, UploadAt(u, "write"), upload[u].file \notin overlap
               PROVE  ~Trusted(upload[u].file)
    BY <1>2
  <2>1. UnderWay(u) /\ ~UploadAt(u, "unlink")
    BY DEF UnderWay, UploadAt
  <2> QED
    BY <2>1, AloneWithItsFile
<1>13. SourcesMatchTheirRows'
  <2> SUFFICES ASSUME NEW f \in Files, f \notin overlap
               PROVE  SourceMatches(f)'
    BY <1>1, FileByFile
  <2>1. SourceMatches(f)
    BY FileByFile DEF IInv
  <2>2. file'[f] = IF f \in cut THEN Partial ELSE file[f]
    BY <1>2
  <2>3. CASE f \in cut
    <3>1. file'[f] \notin Uploads /\ ~Trusted(f)'
      BY <1>11, <1>12, <2>2, <2>3, BytesAssumption
    <3> QED
      BY <3>1 DEF SourceMatches
  <2>4. CASE f \notin cut
    BY <1>1, <1>4, <1>11, <2>1, <2>2, <2>4 DEF SourceMatches, UnderWay
  <2> QED
    BY <2>3, <2>4
<1> QED
  BY <1>6, <1>8, <1>9, <1>10, <1>13 DEF IInv

LEMMA NothingMovesKeeps == IInv /\ UNCHANGED vars => IInv'
<1> SUFFICES ASSUME IInv, UNCHANGED vars PROVE IInv'
  OBVIOUS
<1>1. UNCHANGED <<file, row, chunks, upload, request, overlap, stops, faults>>
  BY DEF vars
<1>2. \A q \in Requests : Document(q)' = Document(q)
  BY <1>1 DEF Document
<1>3. \A f \in Files : Trusted(f)' = Trusted(f)
  BY <1>1 DEF Trusted, Disowned
<1>4. TypeOK' /\ RequestsHaveDocuments' /\ RequestsHaveText' /\ ChecksAreCounted'
  BY <1>1 DEF IInv, TypeOK, RequestsHaveDocuments, RequestsHaveText, ChecksAreCounted,
     RequestAt, Documents
<1>5. TextsMatchTheirRows' /\ LookersAreRivals'
  BY <1>1, <1>2, <1>3 DEF IInv, TextsMatchTheirRows, LookersAreRivals, HasLookedAt, RequestAt
<1>6. UploadsStoreAFile' /\ RowsAreHashed' /\ RowsComeHashed' /\ ChunksHaveDocuments'
      /\ ChunksAreDuplicatedByRivalsOnly'
  BY <1>1 DEF IInv, UploadsStoreAFile, RowsAreHashed, RowsComeHashed, ChunksHaveDocuments,
     ChunksAreDuplicatedByRivalsOnly
<1>7. UploadsAreAlone'
  BY <1>1, <1>3 DEF IInv, UploadsAreAlone, Storing, UploadAt, UnderWay
<1>8. SourcesMatchTheirRows'
  BY <1>1 DEF IInv, SourcesMatchTheirRows, Disowned
<1> QED
  BY <1>4, <1>5, <1>6, <1>7, <1>8 DEF IInv

LEMMA InitHolds == Init => IInv
<1> SUFFICES ASSUME Init PROVE IInv
  OBVIOUS
<1> USE DEF Init
<1>1. /\ \A f \in Files : file[f] = None /\ ~row[f].exists /\ chunks[f] = {}
                          /\ row[f].hash = None
      /\ \A u \in Uploads : upload[u].pc = "idle"
      /\ \A r \in Requests : request[r].pc = "idle"
      /\ overlap = {} /\ stops = 0 /\ faults = 0
  BY DEF NoRow, NoRequest
<1>2. TypeOK
  <2>1. NoRow \in Rows
    BY DEF NoRow, Rows, Statuses
  <2>2. NoRequest \in RequestStates
    BY DocumentsAssumption DEF NoRequest, RequestStates
  <2>3. [pc |-> "idle", file |-> 0] \in UploadStates
    BY DEF UploadStates
  <2> QED
    BY <2>1, <2>2, <2>3, DocumentsAssumption DEF TypeOK
<1>3. UploadsStoreAFile /\ UploadsAreAlone
  BY <1>1 DEF UploadsStoreAFile, UploadsAreAlone, Storing, UnderWay
<1>4. RequestsHaveDocuments /\ RequestsHaveText /\ ChecksAreCounted /\ TextsMatchTheirRows
  BY <1>1 DEF RequestsHaveDocuments, RequestsHaveText, ChecksAreCounted, TextsMatchTheirRows,
     RequestAt, Early
<1>5. RowsAreHashed /\ RowsComeHashed /\ ChunksHaveDocuments /\ LookersAreRivals
  BY <1>1 DEF RowsAreHashed, RowsComeHashed, ChunksHaveDocuments, LookersAreRivals
<1>6. SourcesMatchTheirRows /\ ChunksAreDuplicatedByRivalsOnly
  BY <1>1, BytesAssumption DEF SourcesMatchTheirRows, ChunksAreDuplicatedByRivalsOnly
<1> QED
  BY <1>2, <1>3, <1>4, <1>5, <1>6 DEF IInv

LEMMA StepKeeps == IInv /\ [Next]_vars => IInv'
BY UploadStepKeeps, RequestStepKeeps, EditKeeps, StopKeeps, NothingMovesKeeps DEF Next

LEMMA Invariance == Spec => []IInv
BY InitHolds, StepKeeps, PTL DEF Spec

-----------------------------------------------------------------------------
(* Results. *)

(* Files, rows, chunks, uploads and requests keep their types; a request   *)
(* past its checks holds the text of an upload, never none at all, and has *)
(* looked at every position it is about to fill.                           *)
THEOREM DocumentTypesHold == Spec => [](TypeOK /\ RequestsHaveText /\ ChecksAreCounted)
<1>1. IInv => TypeOK /\ RequestsHaveText /\ ChecksAreCounted
  BY DEF IInv
<1> QED
  BY <1>1, Invariance, PTL

(* Between any number of uploads, requests, edits, errors and restarts the *)
(* stored file, the parsed text and the chunks are those of the row's      *)
(* hash, but where two uploads of one name overlapped or an upload removed *)
(* the file of the row it had committed; a file without a row is that of   *)
(* an upload under way, refused or stopped.                                *)
THEOREM SourcesStayWithTheirRows == Spec => []SourcesMatchTheirRows
<1>1. IInv => SourcesMatchTheirRows
  BY DEF IInv
<1> QED
  BY <1>1, Invariance, PTL

(* The check of positions, one statement each, lets a second chunk into a  *)
(* position only beside a request that had found that position free before *)
(* the first was inserted.                                                 *)
THEOREM OnlyRivalsDuplicateChunks == Spec => []ChunksAreDuplicatedByRivalsOnly
<1>1. IInv => ChunksAreDuplicatedByRivalsOnly
  BY DEF IInv
<1> QED
  BY <1>1, Invariance, PTL
=============================================================================

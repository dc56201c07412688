---------------------- MODULE SimulationLifecycleProofs ----------------------
(***************************************************************************)
(* Proofs about the simulation lifecycle, for every number of requests in  *)
(* flight: what survives requests that commit an older copy of the row.    *)
(***************************************************************************)
EXTENDS SimulationLifecycle, FiniteSetTheorems, TLAPS

(* A request still has the copy it was accepted on. *)
Legal(q) ==
    /\ q.kind = "start" => q.copy.status = "created"
    /\ q.kind \in TurnKinds =>
          /\ q.copy.status \in RUNNABLE_STATUSES
          /\ q.copy.negotiation_state.stage # "ended"
    /\ q.kind = "disable_proxy" => q.copy.status \in RUNNABLE_STATUSES
    /\ q.kind \in ByHandKinds => q.copy.status \notin TERMINAL_STATUSES
    /\ q.kind \in ReviewKinds => q.copy.status = "completed" /\ q.user \in Users
    /\ q.kind = "update_review" =>
          /\ q.copy.teacher_reviewed /\ q.copy.teacher_id # NoTeacher
          /\ q.user \in {q.copy.teacher_id, Admin}
    /\ q.pc = "ledgers" => q.kind \in TurnKinds /\ q.turn \in 1..turns_taken

RequestsAreLegal == \A r \in Slots : request[r] # Idle => Legal(request[r])

(* Each turn uses up a request, and each request takes one turn at most. *)
Pending == {r \in Slots : request[r].pc = "loaded"}

TurnsAreCounted == turns_taken + Cardinality(Pending) <= received

(* What is true of a row stays true of the copies made of it. *)
Consistent(s) ==
    /\ s.negotiation_state.turns \subseteq 1..turns_taken
    /\ s.status = "created" => s.negotiation_state.stage = "new"
    /\ s.negotiation_state.stage = "ended" /\ ~StaleWriters(ByHandKinds) =>
          s.status = "completed"

CopiesAreConsistent ==
    \A r \in Slots : request[r] # Idle =>
        /\ Consistent(request[r].copy)
        /\ row.status = "created" => request[r].copy.status = "created"

RowIsConsistent == Consistent(row) /\ (row.status = "created" => turns_taken = 0)

(* A review is only asked for once the simulation is completed, and only a *)
(* stale request takes that back.                                          *)
ReviewedIsCompleted ==
    ~StaleWriters(Kinds \ ReviewKinds) =>
        \A r \in Slots : request[r] # Idle /\ request[r].kind \in ReviewKinds =>
            row.status = "completed"

IInv ==
    /\ TypeOK
    /\ RequestsAreLegal
    /\ TurnsAreCounted
    /\ CopiesAreConsistent
    /\ RowIsConsistent
    /\ ReviewedIsCompleted
    /\ TurnsAreKept
    /\ ProxiesKeepTheirModel
    /\ ReviewsAreWhole

-----------------------------------------------------------------------------
(* A commit writes each column that differs from the copy, and no other. *)
LEMMA FlushedColumns ==
    ASSUME row \in Rows, NEW copy \in Rows, NEW new \in Rows
    PROVE  LET f == Flushed(copy, new)
           IN  /\ f \in Rows
               /\ f.exists = IF new.exists # copy.exists THEN new.exists ELSE row.exists
               /\ f.status = IF new.status # copy.status THEN new.status ELSE row.status
               /\ f.negotiation_state =
                     IF new.negotiation_state # copy.negotiation_state
                     THEN new.negotiation_state ELSE row.negotiation_state
               /\ f.messages = IF new.messages # copy.messages THEN new.messages ELSE row.messages
               /\ f.teacher_reviewed =
                     IF new.teacher_reviewed # copy.teacher_reviewed
                     THEN new.teacher_reviewed ELSE row.teacher_reviewed
               /\ f.teacher_id =
                     IF new.teacher_id # copy.teacher_id THEN new.teacher_id ELSE row.teacher_id
               /\ f.teacher_feedback =
                     IF new.teacher_feedback # copy.teacher_feedback
                     THEN new.teacher_feedback ELSE row.teacher_feedback
<1>1. DOMAIN row = {"exists", "status", "negotiation_state", "messages",
                    "teacher_reviewed", "teacher_id", "teacher_feedback"}
  BY DEF Rows
<1>2. \A column \in DOMAIN row :
          Flushed(copy, new)[column] =
              IF new[column] # copy[column] THEN new[column] ELSE row[column]
  BY DEF Flushed
<1>3. Flushed(copy, new) \in Rows
  BY <1>1, <1>2 DEF Rows, Flushed
<1> QED
  BY <1>1, <1>2, <1>3

(* A commit on a copy that is what is stored stores the new row. *)
LEMMA FreshCommit ==
    ASSUME row \in Rows, NEW new \in Rows
    PROVE  LET f == Flushed(row, new)
           IN  /\ f.exists = new.exists /\ f.status = new.status
               /\ f.negotiation_state = new.negotiation_state
               /\ f.messages = new.messages
               /\ f.teacher_reviewed = new.teacher_reviewed
               /\ f.teacher_id = new.teacher_id
               /\ f.teacher_feedback = new.teacher_feedback
BY FlushedColumns

(* What is noted of stale writes stays noted. *)
LEMMA StaleStays ==
    ASSUME NEW kinds, stale \subseteq stale'
    PROVE  StaleWriters(kinds) => StaleWriters(kinds)'
BY DEF StaleWriters

LEMMA StaleIsNoted ==
    ASSUME NEW r \in Slots, NotesStale(r)
    PROVE  /\ stale \subseteq stale'
           /\ request[r].copy # row => request[r].kind \in stale'
BY DEF NotesStale

LEMMA Noted ==
    ASSUME NEW kind, NEW kinds, kind \in stale', kind \in kinds
    PROVE  StaleWriters(kinds)'
BY DEF StaleWriters

-----------------------------------------------------------------------------
(* A request that is over leaves the others, and what is known of them, as *)
(* they are.                                                               *)
LEMMA PendingIsFinite ==
    ASSUME TypeOK
    PROVE  IsFiniteSet(Pending) /\ Cardinality(Pending) \in Nat
<1>1. Pending \subseteq Slots
  BY DEF Pending
<1> QED
  BY <1>1, SlotsAssumption, FS_Subset, FS_CardinalityType

LEMMA PendingLeaves ==
    ASSUME TypeOK, NEW r \in Slots, request[r].pc = "loaded",
           request'[r].pc # "loaded",
           \A s \in Slots : s # r => request'[s] = request[s]
    PROVE  /\ Cardinality(Pending') = Cardinality(Pending) - 1
           /\ Cardinality(Pending) >= 1
<1>1. Pending' = Pending \ {r} /\ r \in Pending
  BY DEF Pending
<1>2. /\ IsFiniteSet(Pending \ {r})
      /\ Cardinality(Pending \ {r}) = Cardinality(Pending) - 1
      /\ Cardinality(Pending \ {r}) \in Nat
  BY <1>1, PendingIsFinite, FS_RemoveElement, FS_CardinalityType
<1> QED
  BY <1>1, <1>2, PendingIsFinite

LEMMA RequestsAreTyped ==
    ASSUME TypeOK, NEW r \in Slots, request[r] # Idle
    PROVE  /\ request[r] \in Requests
           /\ request[r].copy \in Rows /\ request[r].kind \in Kinds
BY DEF TypeOK, Requests

LEMMA RequestEnds ==
    ASSUME IInv, NEW r \in Slots, request[r] # Idle, Responds(r),
           stale \subseteq stale', UNCHANGED <<received, turns_taken>>
    PROVE  /\ request' \in [Slots -> Requests \cup {Idle}]
           /\ request'[r] = Idle
           /\ \A s \in Slots : s # r => request'[s] = request[s]
           /\ RequestsAreLegal'
           /\ TurnsAreCounted'
           /\ \A s : Consistent(s) => Consistent(s)'
           /\ \A s \in Slots : (request[s] # Idle => Consistent(request[s].copy))'
<1>1. /\ request' \in [Slots -> Requests \cup {Idle}]
      /\ request'[r] = Idle
      /\ \A s \in Slots : s # r => request'[s] = request[s]
  BY DEF IInv, TypeOK, Responds
<1>2. RequestsAreLegal'
  BY <1>1 DEF IInv, RequestsAreLegal, Legal
<1>3. TurnsAreCounted'
  <2>1. request'[r].pc = "idle"
    BY <1>1 DEF Idle
  <2>2. CASE request[r].pc = "loaded"
    <3>1. Cardinality(Pending)' = Cardinality(Pending) - 1
      BY <1>1, <2>1, <2>2, PendingLeaves DEF IInv
    <3> QED
      BY <3>1, PendingIsFinite DEF IInv, TypeOK, TurnsAreCounted
  <2>3. CASE request[r].pc # "loaded"
    <3>1. Pending' = Pending
      BY <1>1, <2>1, <2>3 DEF Pending
    <3> QED
      BY <3>1 DEF IInv, TurnsAreCounted
  <2> QED
    BY <2>2, <2>3
<1>4. \A s : Consistent(s) => Consistent(s)'
  BY StaleStays DEF Consistent
<1>5. \A s \in Slots : (request[s] # Idle => Consistent(request[s].copy))'
  <2> SUFFICES ASSUME NEW s \in Slots, request'[s] # Idle
               PROVE  Consistent(request[s].copy)'
    OBVIOUS
  <2>1. request'[s] = request[s]
    BY <1>1
  <2>2. Consistent(request[s].copy)
    BY <2>1 DEF IInv, CopiesAreConsistent
  <2> QED
    BY <2>1, <2>2, StaleStays DEF Consistent
<1> QED
  BY <1>1, <1>2, <1>3, <1>4, <1>5

(* Evidence on its way stays on its way when another request ends. *)
LEMMA EvidenceStays ==
    ASSUME NEW r \in Slots, request[r].pc = "loaded",
           \A s \in Slots : s # r => request'[s] = request[s]
    PROVE  \A t : EvidenceIsComing(t) => EvidenceIsComing(t)'
BY DEF EvidenceIsComing

(* The evidence of every turn, as TurnsAreKept has it. *)
LEMMA EvidenceIsKept ==
    ASSUME TurnsAreKept, NEW r \in Slots, request[r].pc = "loaded",
           \A s \in Slots : s # r => request'[s] = request[s],
           row'.exists => row.exists, UNCHANGED <<ledgers, faults, turns_taken>>
    PROVE  (row.exists /\ faults = 0 =>
               \A t \in 1..turns_taken : t \in ledgers \/ EvidenceIsComing(t))'
BY EvidenceStays DEF TurnsAreKept

-----------------------------------------------------------------------------
(* The commits, by the columns they may write.  First those of a review:   *)
(* the simulation itself stays as it is.                                   *)
LEMMA ReviewCommitKeeps ==
    ASSUME IInv, NEW r \in Slots, request[r] # Idle, request[r].pc = "loaded",
           request[r].kind \in ReviewKinds,
           NEW new \in Rows,
           new.exists = request[r].copy.exists, new.status = request[r].copy.status,
           new.negotiation_state = request[r].copy.negotiation_state,
           new.messages = request[r].copy.messages,
           Replies(r, new),
           request[r].copy = row =>
               /\ new.teacher_reviewed <=> new.teacher_id # NoTeacher
               /\ new.teacher_reviewed <=> new.teacher_feedback # NoTeacher
               /\ new.teacher_reviewed => new.teacher_feedback \in {new.teacher_id, Admin}
    PROVE  IInv'
<1> DEFINE copy == request[r].copy
<1>1. /\ row.exists /\ row' = Flushed(copy, new) /\ NotesStale(r) /\ Responds(r)
      /\ UNCHANGED <<ledgers, received, faults, turns_taken>>
  BY DEF Replies, commit_and_refresh
<1>2. request[r] \in Requests /\ copy \in Rows /\ row \in Rows
  BY RequestsAreTyped DEF IInv, TypeOK
<1>3. /\ row' \in Rows
      /\ row'.exists = row.exists /\ row'.status = row.status
      /\ row'.negotiation_state = row.negotiation_state /\ row'.messages = row.messages
  BY <1>1, <1>2, FlushedColumns
<1>4. stale \subseteq stale' /\ (copy # row => request[r].kind \in stale')
  BY <1>1, StaleIsNoted
<1>5. /\ request' \in [Slots -> Requests \cup {Idle}]
      /\ request'[r] = Idle
      /\ \A s \in Slots : s # r => request'[s] = request[s]
      /\ RequestsAreLegal' /\ TurnsAreCounted'
      /\ \A s : Consistent(s) => Consistent(s)'
      /\ \A s \in Slots : (request[s] # Idle => Consistent(request[s].copy))'
  BY <1>1, <1>4, RequestEnds
<1>6. TypeOK'
  BY <1>1, <1>2, <1>3, <1>5 DEF IInv, TypeOK, NotesStale, Requests
<1>7. CopiesAreConsistent' /\ RowIsConsistent'
  BY <1>1, <1>3, <1>4, <1>5, StaleStays
     DEF IInv, CopiesAreConsistent, RowIsConsistent, Consistent
<1>8. ReviewedIsCompleted'
  BY <1>3, <1>4, <1>5, StaleStays DEF IInv, ReviewedIsCompleted
<1>9. TurnsAreKept'
  BY <1>1, <1>3, <1>4, <1>5, StaleStays, EvidenceIsKept DEF IInv, TurnsAreKept
<1>10. ProxiesKeepTheirModel'
  BY <1>3 DEF IInv, ProxiesKeepTheirModel
<1>11. ReviewsAreWhole'
  <2>1. CASE copy = row
    <3>1. /\ row'.teacher_reviewed = new.teacher_reviewed /\ row'.teacher_id = new.teacher_id
          /\ row'.teacher_feedback = new.teacher_feedback
      BY <1>1, <1>2, <2>1, FreshCommit
    <3>2. ~StaleWriters(Kinds \ ReviewKinds)' => row.status = "completed"
      BY <1>4, StaleStays DEF IInv, ReviewedIsCompleted
    <3> QED
      BY <1>3, <2>1, <3>1, <3>2 DEF ReviewsAreWhole
  <2>2. CASE copy # row
    <3>1. StaleWriters(ReviewKinds)'
      BY <1>4, <2>2, Noted
    <3>2. ~StaleWriters(Kinds \ ReviewKinds)' => row.status = "completed"
      BY <1>4, StaleStays DEF IInv, ReviewedIsCompleted
    <3> QED
      BY <1>3, <3>1, <3>2 DEF ReviewsAreWhole
  <2> QED
    BY <2>1, <2>2
<1> QED
  BY <1>5, <1>6, <1>7, <1>8, <1>9, <1>10, <1>11 DEF IInv

(* A status set by hand: only a stale request takes a terminal status back. *)
LEMMA ByHandCommitKeeps ==
    ASSUME IInv, NEW r \in Slots, request[r] # Idle, request[r].pc = "loaded",
           request[r].kind \in ByHandKinds,
           NEW status \in Statuses \ {"created"},
           Replies(r, [request[r].copy EXCEPT !.status = status])
    PROVE  IInv'
<1> DEFINE copy == request[r].copy
           new  == [copy EXCEPT !.status = status]
<1>1. /\ row.exists /\ row' = Flushed(copy, new) /\ NotesStale(r) /\ Responds(r)
      /\ UNCHANGED <<ledgers, received, faults, turns_taken>>
  BY DEF Replies, commit_and_refresh
<1>2. request[r] \in Requests /\ copy \in Rows /\ row \in Rows
  BY RequestsAreTyped DEF IInv, TypeOK
<1>3. /\ row' \in Rows
      /\ row'.exists = row.exists /\ row'.status \in {row.status, status}
      /\ row'.negotiation_state = row.negotiation_state /\ row'.messages = row.messages
      /\ row'.teacher_reviewed = row.teacher_reviewed /\ row'.teacher_id = row.teacher_id
      /\ row'.teacher_feedback = row.teacher_feedback
  <2>1. /\ new \in Rows
        /\ new.exists = copy.exists /\ new.status = status
        /\ new.negotiation_state = copy.negotiation_state /\ new.messages = copy.messages
        /\ new.teacher_reviewed = copy.teacher_reviewed
        /\ new.teacher_id = copy.teacher_id /\ new.teacher_feedback = copy.teacher_feedback
    BY <1>2 DEF Rows
  <2> HIDE DEF new
  <2> QED
    BY <1>1, <1>2, <2>1, FlushedColumns, ZenonT(60)
<1> HIDE DEF new
<1>4. stale \subseteq stale' /\ (copy # row => request[r].kind \in stale')
  BY <1>1, StaleIsNoted
<1>5. /\ request' \in [Slots -> Requests \cup {Idle}]
      /\ request'[r] = Idle
      /\ \A s \in Slots : s # r => request'[s] = request[s]
      /\ RequestsAreLegal' /\ TurnsAreCounted'
      /\ \A s : Consistent(s) => Consistent(s)'
      /\ \A s \in Slots : (request[s] # Idle => Consistent(request[s].copy))'
  BY <1>1, <1>4, RequestEnds
<1>6. TypeOK'
  BY <1>1, <1>2, <1>3, <1>5 DEF IInv, TypeOK, NotesStale, Requests
<1>7. copy = row => row.status \notin TERMINAL_STATUSES
  BY DEF IInv, RequestsAreLegal, Legal
<1>8. copy # row =>
          StaleWriters(ByHandKinds)' /\ StaleWriters(Kinds \ ReviewKinds)'
  BY <1>4, Noted DEF Kinds, ByHandKinds, ReviewKinds
<1>9. RowIsConsistent' /\ CopiesAreConsistent'
  <2>1. row'.status = "created" => row.status = "created"
    BY <1>3
  <2>2. Consistent(row)'
    BY <1>1, <1>3, <1>4, <1>7, <1>8, <2>1, StaleStays
       DEF IInv, RowIsConsistent, Consistent, TERMINAL_STATUSES
  <2> QED
    BY <1>1, <1>5, <2>1, <2>2 DEF IInv, CopiesAreConsistent, RowIsConsistent
<1>10. ReviewedIsCompleted'
  BY <1>3, <1>4, <1>5, <1>7, <1>8, StaleStays
     DEF IInv, ReviewedIsCompleted, TERMINAL_STATUSES
<1>11. TurnsAreKept'
  BY <1>1, <1>3, <1>4, <1>5, <1>9, StaleStays, EvidenceIsKept
     DEF IInv, TurnsAreKept, RowIsConsistent, Consistent
<1>12. ProxiesKeepTheirModel'
  BY <1>3 DEF IInv, ProxiesKeepTheirModel
<1>13. ReviewsAreWhole'
  BY <1>3, <1>4, <1>7, <1>8, StaleStays
     DEF IInv, ReviewsAreWhole, TERMINAL_STATUSES
<1> QED
  BY <1>5, <1>6, <1>9, <1>10, <1>11, <1>12, <1>13 DEF IInv

(* A negotiation state other than that of a turn: only that of a start has *)
(* no turns, and there are none to lose.                                   *)
WritesState(r) ==
    /\ row.exists /\ NotesStale(r) /\ Responds(r)
    /\ UNCHANGED <<ledgers, received, faults, turns_taken>>
    /\ row' \in Rows
    /\ row'.exists = row.exists
    /\ row'.teacher_reviewed = row.teacher_reviewed
    /\ row'.teacher_id = row.teacher_id
    /\ row'.teacher_feedback = row.teacher_feedback
    /\ IF request[r].kind = "start"
       THEN row'.status = "active" /\ row'.negotiation_state.stage = "open"
       ELSE row'.status = row.status
    /\ row'.negotiation_state # row.negotiation_state =>
          /\ row'.negotiation_state.turns \subseteq request[r].copy.negotiation_state.turns
          /\ row'.negotiation_state.stage \in
                {"open", "seeded", request[r].copy.negotiation_state.stage}
          /\ ~row'.negotiation_state.auto_user_proxy_enabled
          /\ ~row'.negotiation_state.user_proxy_persona
    /\ request[r].copy = row =>
          /\ row'.messages = row'.negotiation_state.turns
          /\ \/ row'.negotiation_state.turns = row.negotiation_state.turns
             \/ request[r].kind = "start" /\ row'.negotiation_state.turns = {}

LEMMA StateCommitKeeps ==
    ASSUME IInv, NEW r \in Slots, request[r] # Idle, request[r].pc = "loaded",
           request[r].kind \in {"start", "disable_proxy"}, WritesState(r)
    PROVE  IInv'
<1> DEFINE copy == request[r].copy
<1>2. request[r] \in Requests /\ copy \in Rows /\ row \in Rows /\ row' \in Rows
  BY RequestsAreTyped DEF IInv, TypeOK, WritesState
<1>4. stale \subseteq stale' /\ (copy # row => request[r].kind \in stale')
  BY StaleIsNoted DEF WritesState
<1>5. /\ request' \in [Slots -> Requests \cup {Idle}]
      /\ request'[r] = Idle
      /\ \A s \in Slots : s # r => request'[s] = request[s]
      /\ RequestsAreLegal' /\ TurnsAreCounted'
      /\ \A s : Consistent(s) => Consistent(s)'
      /\ \A s \in Slots : (request[s] # Idle => Consistent(request[s].copy))'
  BY <1>4, RequestEnds DEF WritesState
<1>6. TypeOK'
  BY <1>2, <1>5 DEF IInv, TypeOK, NotesStale, Requests, WritesState
<1>7. copy.status \notin TERMINAL_STATUSES
  BY DEF IInv, RequestsAreLegal, Legal, RUNNABLE_STATUSES, TERMINAL_STATUSES
<1>8. copy # row => StaleWriters(StateKinds)' /\ StaleWriters(Kinds \ ReviewKinds)'
  BY <1>4, Noted DEF Kinds, StateKinds, ReviewKinds, ProxyKinds
<1>9. RowIsConsistent' /\ CopiesAreConsistent'
  <2>1. row'.status = "created" => row.status = "created" /\ request[r].kind = "disable_proxy"
    BY DEF WritesState
  <2>2. row.status = "created" => copy.status = "created"
    BY DEF IInv, CopiesAreConsistent
  <2>3. row'.status # "created"
    BY <2>1, <2>2 DEF IInv, RequestsAreLegal, Legal, RUNNABLE_STATUSES
  <2>4. copy.negotiation_state.stage = "ended" /\ ~StaleWriters(ByHandKinds) =>
            copy.status = "completed"
    BY DEF IInv, CopiesAreConsistent, Consistent
  <2>5. row'.negotiation_state.turns \subseteq 1..turns_taken
    BY DEF IInv, CopiesAreConsistent, RowIsConsistent, Consistent, WritesState
  <2>6. row'.negotiation_state.stage = "ended" /\ ~StaleWriters(ByHandKinds)' =>
            row'.status = "completed"
    BY <1>4, <1>7, <2>4, StaleStays
       DEF IInv, RowIsConsistent, Consistent, TERMINAL_STATUSES, WritesState
  <2> QED
    BY <1>5, <2>3, <2>5, <2>6
       DEF IInv, CopiesAreConsistent, RowIsConsistent, Consistent, WritesState
<1>10. ReviewedIsCompleted'
  BY <1>4, <1>5, <1>7, <1>8, StaleStays
     DEF IInv, ReviewedIsCompleted, TERMINAL_STATUSES, WritesState
<1>11. TurnsAreKept'
  <2>1. ~StaleWriters(StateKinds)' =>
            row'.negotiation_state.turns = 1..turns_taken /\ row'.messages = 1..turns_taken
    <3> SUFFICES ASSUME ~StaleWriters(StateKinds)'
                 PROVE  row'.negotiation_state.turns = 1..turns_taken
                        /\ row'.messages = 1..turns_taken
      OBVIOUS
    <3>1. copy = row /\ row.negotiation_state.turns = 1..turns_taken
      BY <1>4, <1>8, StaleStays DEF IInv, TurnsAreKept
    <3>2. request[r].kind = "start" => turns_taken = 0
      BY <3>1 DEF IInv, RequestsAreLegal, Legal, RowIsConsistent
    <3>3. row'.messages = row'.negotiation_state.turns
      BY <3>1 DEF WritesState
    <3>4. CASE row'.negotiation_state.turns = row.negotiation_state.turns
      BY <3>1, <3>3, <3>4
    <3>5. CASE request[r].kind = "start" /\ row'.negotiation_state.turns = {}
      BY <3>2, <3>3, <3>5
    <3> QED
      BY <3>1, <3>4, <3>5 DEF WritesState
  <2> QED
    BY <1>5, <1>9, <2>1, EvidenceIsKept
       DEF IInv, TurnsAreKept, RowIsConsistent, Consistent, WritesState
<1>12. ProxiesKeepTheirModel'
  BY DEF IInv, ProxiesKeepTheirModel, WritesState
<1>13. ReviewsAreWhole'
  BY <1>4, <1>7, <1>8, StaleStays
     DEF IInv, ReviewsAreWhole, TERMINAL_STATUSES, WritesState
<1> QED
  BY <1>5, <1>6, <1>9, <1>10, <1>11, <1>12, <1>13 DEF IInv

(* A turn: it has a number of its own, so that its negotiation state       *)
(* differs from the copy and is always written.                            *)
LEMMA TurnCommitKeeps ==
    ASSUME IInv, NEW r \in Slots, request[r] # Idle, request[r].pc = "loaded",
           request[r].kind \in TurnKinds,
           NEW state \in NegotiationStates,
           state.turns = request[r].copy.negotiation_state.turns \cup {turns_taken + 1},
           state.stage \in {"open", "ended"},
           IF state.auto_user_proxy_enabled
           THEN state.proxy_selection # "none" ELSE ~state.user_proxy_persona,
           TakesTurn(r, state)
    PROVE  IInv'
<1> DEFINE copy == request[r].copy
           new  == AfterTurn(r, state)
<1>1. /\ row.exists /\ row' = Flushed(copy, new) /\ NotesStale(r)
      /\ turns_taken' = turns_taken + 1
      /\ request' = [request EXCEPT ![r].pc = "ledgers", ![r].turn = turns_taken + 1]
      /\ UNCHANGED <<ledgers, received, faults>>
  BY DEF TakesTurn, commit_and_refresh
<1>2. request[r] \in Requests /\ copy \in Rows /\ row \in Rows
  BY RequestsAreTyped DEF IInv, TypeOK
<1>3. stale \subseteq stale' /\ (copy # row => request[r].kind \in stale')
  BY <1>1, StaleIsNoted
<1>4. turns_taken \in Nat /\ received \in Nat /\ received <= MaxRequests
      /\ turns_taken <= MaxRequests /\ MaxRequests \in Nat
  BY BoundsAssumption DEF IInv, TypeOK
<1>5. Legal(request[r]) /\ Consistent(copy) /\ row.status # "created"
  BY DEF IInv, RequestsAreLegal, CopiesAreConsistent, Legal, RUNNABLE_STATUSES
<1>6. copy.status \in RUNNABLE_STATUSES /\ copy.negotiation_state.stage # "ended"
  BY <1>5 DEF Legal
<1>7. state # copy.negotiation_state
  <2>1. turns_taken + 1 \notin copy.negotiation_state.turns
    BY <1>4, <1>5 DEF Consistent
  <2> QED
    BY <2>1
<1>8. /\ row' \in Rows
      /\ row'.exists = row.exists
      /\ row'.negotiation_state = state
      /\ state.stage = "ended" => row'.status = "completed"
      /\ row'.status \in {row.status, "completed", "paused"}
      /\ copy = row => row'.messages = state.turns
      /\ row'.teacher_reviewed = row.teacher_reviewed /\ row'.teacher_id = row.teacher_id
      /\ row'.teacher_feedback = row.teacher_feedback
  <2>1. /\ new.exists = copy.exists /\ new.status = _status_after_graph(state.stage)
        /\ new.negotiation_state = state /\ new.messages = state.turns
        /\ new.teacher_reviewed = copy.teacher_reviewed
        /\ new.teacher_id = copy.teacher_id /\ new.teacher_feedback = copy.teacher_feedback
    BY <1>2 DEF AfterTurn, Rows
  <2>2. _status_after_graph(state.stage) \in Statuses /\ state.turns \in SUBSET Turns
    BY DEF _status_after_graph, Statuses, RUNNABLE_STATUSES, TERMINAL_STATUSES, NegotiationStates
  <2>3. new \in Rows
    BY <1>2, <2>2 DEF AfterTurn, Rows
  <2> HIDE DEF new
  <2>4. /\ row' \in Rows
        /\ row'.exists = row.exists
        /\ row'.negotiation_state = state
        /\ row'.teacher_reviewed = row.teacher_reviewed /\ row'.teacher_id = row.teacher_id
        /\ row'.teacher_feedback = row.teacher_feedback
    BY <1>1, <1>2, <1>7, <2>1, <2>3, FlushedColumns
  <2>5. row'.status = IF new.status # copy.status THEN new.status ELSE row.status
    BY <1>1, <1>2, <2>3, FlushedColumns
  <2>6. copy = row => row'.messages = state.turns
    BY <1>1, <1>2, <2>1, <2>3, FreshCommit
  <2> QED
    BY <1>6, <2>1, <2>4, <2>5, <2>6 DEF _status_after_graph, RUNNABLE_STATUSES
<1> HIDE DEF new
<1>9. Cardinality(Pending)' = Cardinality(Pending) - 1 /\ Cardinality(Pending) \in Nat
      /\ Cardinality(Pending) >= 1
  <2>1. request'[r].pc = "ledgers" /\ \A s \in Slots : s # r => request'[s] = request[s]
    BY <1>1, <1>2 DEF IInv, TypeOK, Requests
  <2> QED
    BY <2>1, PendingLeaves, PendingIsFinite DEF IInv
<1>10. turns_taken + 1 \in Turns /\ turns_taken + 1 \in 1..turns_taken'
       /\ turns_taken + 1 \in 0..MaxRequests
  BY <1>1, <1>4, <1>9 DEF IInv, TurnsAreCounted, Turns
<1>11. /\ request'[r] \in Requests /\ request'[r].kind = request[r].kind
       /\ request'[r].copy = copy /\ request'[r].pc = "ledgers"
       /\ request'[r].turn = turns_taken + 1 /\ request'[r].user = request[r].user
       /\ \A s \in Slots : s # r => request'[s] = request[s]
       /\ request' \in [Slots -> Requests \cup {Idle}]
  BY <1>1, <1>2, <1>10 DEF IInv, TypeOK, Requests
<1>12. TypeOK'
  BY <1>1, <1>2, <1>8, <1>10, <1>11 DEF IInv, TypeOK, NotesStale, Requests
<1>13. RequestsAreLegal'
  BY <1>1, <1>4, <1>5, <1>10, <1>11 DEF IInv, RequestsAreLegal, Legal
<1>14. TurnsAreCounted'
  BY <1>1, <1>4, <1>9 DEF IInv, TurnsAreCounted
<1>15. \A s : Consistent(s) => Consistent(s)'
  BY <1>1, <1>3, <1>4, StaleStays DEF Consistent
<1>16. CopiesAreConsistent'
  <2> SUFFICES ASSUME NEW s \in Slots, request'[s] # Idle
               PROVE  (Consistent(request[s].copy))' /\ row'.status # "created"
    BY DEF CopiesAreConsistent
  <2>1. request'[s].copy = request[s].copy /\ Consistent(request[s].copy)
    BY <1>11, <1>5 DEF IInv, CopiesAreConsistent
  <2> QED
    BY <1>1, <1>3, <1>4, <1>5, <1>8, <2>1, StaleStays DEF Consistent
<1>17. RowIsConsistent'
  <2>1. state.turns \subseteq 1..(turns_taken + 1)
    BY <1>4, <1>5 DEF Consistent
  <2> QED
    BY <1>1, <1>5, <1>8, <2>1 DEF RowIsConsistent, Consistent
<1>18. copy # row => StaleWriters(StateKinds)' /\ StaleWriters(Kinds \ ReviewKinds)'
  BY <1>3, Noted DEF Kinds, StateKinds, TurnKinds, ReviewKinds
<1>19. copy = row => row.status # "completed"
  BY <1>6 DEF RUNNABLE_STATUSES
<1>20. ReviewedIsCompleted'
  BY <1>3, <1>11, <1>18, <1>19, StaleStays
     DEF IInv, ReviewedIsCompleted, TurnKinds, ReviewKinds
<1>21. TurnsAreKept'
  <2>1. ~StaleWriters(StateKinds)' =>
            state.turns = 1..(turns_taken + 1) /\ row'.messages = state.turns
    <3> SUFFICES ASSUME ~StaleWriters(StateKinds)'
                 PROVE  state.turns = 1..(turns_taken + 1) /\ row'.messages = state.turns
      OBVIOUS
    <3>1. copy = row /\ row.negotiation_state.turns = 1..turns_taken
      BY <1>3, <1>18, StaleStays DEF IInv, TurnsAreKept
    <3> QED
      BY <1>4, <1>8, <3>1
  <2>2. (row.exists /\ faults = 0 =>
            \A t \in 1..turns_taken : t \in ledgers \/ EvidenceIsComing(t))'
    <3> SUFFICES ASSUME row'.exists, faults' = 0, NEW t \in 1..(turns_taken + 1)
                 PROVE  t \in ledgers \/ EvidenceIsComing(t)'
      BY <1>1
    <3>1. CASE t = turns_taken + 1
      <4>1. request'[r] # Idle
        BY <1>11 DEF Idle
      <4> QED
        BY <1>11, <3>1, <4>1 DEF EvidenceIsComing
    <3>2. CASE t # turns_taken + 1
      <4>1. t \in ledgers \/ EvidenceIsComing(t)
        BY <1>1, <1>4, <1>8, <3>2 DEF IInv, TurnsAreKept
      <4> QED
        BY <1>11, <4>1, EvidenceStays
    <3> QED
      BY <3>1, <3>2
  <2> QED
    BY <1>1, <1>8, <2>1, <2>2 DEF TurnsAreKept
<1>22. ProxiesKeepTheirModel'
  BY <1>8 DEF ProxiesKeepTheirModel
<1>23. ReviewsAreWhole'
  BY <1>3, <1>8, <1>18, <1>19, StaleStays DEF IInv, ReviewsAreWhole
<1> QED
  BY <1>12, <1>13, <1>14, <1>16, <1>17, <1>20, <1>21, <1>22, <1>23 DEF IInv

-----------------------------------------------------------------------------
(* The handlers, one by one. *)
LEMMA LoadedIsRequest ==
    ASSUME TypeOK, NEW r \in Slots, NEW kind, Loaded(r, kind)
    PROVE  /\ request[r] # Idle /\ request[r].pc = "loaded" /\ request[r].kind = kind
           /\ request[r] \in Requests /\ request[r].copy \in Rows
           /\ request[r].copy.negotiation_state \in NegotiationStates
BY RequestsAreTyped DEF Loaded, Rows

LEMMA AcceptedIsLegal ==
    ASSUME row \in Rows, NEW kind \in Kinds, NEW user \in Users,
           IF kind \in ReviewKinds
           THEN get_teacher_review_simulation(user) /\ AcceptsReview(kind, user)
           ELSE get_accessible_simulation(user) /\ Accepts(kind),
           NEW q,
           q.kind = kind, q.user = IF kind \in ReviewKinds THEN user ELSE NoTeacher,
           q.copy = row, q.pc = "loaded"
    PROVE  Legal(q)
<1>1. CASE kind \in ReviewKinds
  <2>1. kind \notin TurnKinds /\ kind \notin ByHandKinds /\ kind # "start"
        /\ kind # "disable_proxy"
    BY <1>1 DEF ReviewKinds, TurnKinds, ByHandKinds
  <2>2. row.status = "completed"
    BY <1>1 DEF AcceptsReview
  <2>3. kind = "update_review" =>
            row.teacher_reviewed /\ row.teacher_id # NoTeacher /\ user \in {row.teacher_id, Admin}
    BY <1>1 DEF AcceptsReview, MayEditReview, _has_role
  <2> QED
    BY <1>1, <2>1, <2>2, <2>3 DEF Legal
<1>2. CASE kind \notin ReviewKinds
  <2>1. Accepts(kind)
    BY <1>2
  <2>2. row.status \in TERMINAL_STATUSES => ALLOWED_STATUS_TRANSITIONS(row.status) = {}
    BY DEF ALLOWED_STATUS_TRANSITIONS, TERMINAL_STATUSES
  <2>3. /\ kind = "start" => row.status = "created"
        /\ kind \in TurnKinds =>
              row.status \in RUNNABLE_STATUSES /\ row.negotiation_state.stage # "ended"
        /\ kind = "disable_proxy" => row.status \in RUNNABLE_STATUSES
        /\ kind \in ByHandKinds => row.status \notin TERMINAL_STATUSES
    BY <2>1, <2>2 DEF Accepts, TurnKinds, ByHandKinds
  <2>4. kind # "update_review"
    BY <1>2 DEF ReviewKinds
  <2> QED
    BY <1>2, <2>3, <2>4 DEF Legal
<1> QED
  BY <1>1, <1>2

LEMMA GetKeeps ==
    ASSUME IInv, NEW r \in Slots, get_simulation(r)
    PROVE  IInv'
<1>1. PICK kind \in Kinds, user \in Users :
          /\ IF kind \in ReviewKinds
             THEN get_teacher_review_simulation(user) /\ AcceptsReview(kind, user)
             ELSE get_accessible_simulation(user) /\ Accepts(kind)
          /\ request' = [request EXCEPT ![r] =
                 [kind |-> kind, user |-> IF kind \in ReviewKinds THEN user ELSE NoTeacher,
                  pc |-> "loaded", copy |-> row, turn |-> 0]]
  BY DEF get_simulation
<1> DEFINE q == [kind |-> kind, user |-> IF kind \in ReviewKinds THEN user ELSE NoTeacher,
                 pc |-> "loaded", copy |-> row, turn |-> 0]
<1>2. /\ request[r] = Idle /\ received < MaxRequests /\ received' = received + 1
      /\ UNCHANGED <<row, ledgers, faults, turns_taken, stale>>
  BY DEF get_simulation
<1>3. /\ q \in Requests /\ q.kind = kind /\ q.copy = row /\ q.pc = "loaded"
      /\ q.user = IF kind \in ReviewKinds THEN user ELSE NoTeacher
  BY DEF IInv, TypeOK, Requests
<1> HIDE DEF q
<1>4. /\ request' \in [Slots -> Requests \cup {Idle}] /\ request'[r] = q
      /\ \A s \in Slots : s # r => request'[s] = request[s]
  BY <1>1, <1>3 DEF q, IInv, TypeOK
<1>5. TypeOK'
  BY <1>2, <1>4, BoundsAssumption DEF IInv, TypeOK
<1>6. Legal(q)
  BY <1>1, <1>3, AcceptedIsLegal DEF IInv, TypeOK
<1>7. RequestsAreLegal'
  BY <1>2, <1>4, <1>6 DEF IInv, RequestsAreLegal, Legal
<1>8. TurnsAreCounted'
  <2>1. Pending' = Pending \cup {r}
    BY <1>2, <1>3, <1>4 DEF Pending, Idle
  <2>2. r \notin Pending
    BY <1>2 DEF Pending, Idle
  <2>3. Cardinality(Pending)' = Cardinality(Pending) + 1
    BY <2>1, <2>2, PendingIsFinite, FS_AddElement DEF IInv
  <2> QED
    BY <1>2, <2>3, PendingIsFinite DEF IInv, TypeOK, TurnsAreCounted
<1>9. CopiesAreConsistent' /\ RowIsConsistent'
  BY <1>2, <1>3, <1>4
     DEF IInv, CopiesAreConsistent, RowIsConsistent, Consistent, StaleWriters
<1>10. ReviewedIsCompleted'
  <2>1. kind \in ReviewKinds => row.status = "completed"
    BY <1>1 DEF AcceptsReview
  <2> QED
    BY <1>2, <1>3, <1>4, <2>1 DEF IInv, ReviewedIsCompleted, StaleWriters
<1>11. TurnsAreKept'
  <2>1. \A t : EvidenceIsComing(t) => EvidenceIsComing(t)'
    BY <1>2, <1>4 DEF EvidenceIsComing
  <2> QED
    BY <1>2, <2>1 DEF IInv, TurnsAreKept, StaleWriters
<1>12. ProxiesKeepTheirModel' /\ ReviewsAreWhole'
  BY <1>2 DEF IInv, ProxiesKeepTheirModel, ReviewsAreWhole, StaleWriters
<1> QED
  BY <1>5, <1>7, <1>8, <1>9, <1>10, <1>11, <1>12 DEF IInv

LEMMA StartKeeps ==
    ASSUME IInv, NEW r \in Slots, start_simulation(r)
    PROVE  IInv'
<1> DEFINE copy == request[r].copy
<1>1. PICK named \in BOOLEAN :
          Replies(r, [copy EXCEPT
              !.status = "active",
              !.negotiation_state = _initial_graph_state(copy.negotiation_state,
                                        _llm_selection_from_start_data(named)),
              !.messages = {}])
  BY DEF start_simulation
<1> DEFINE state == _initial_graph_state(copy.negotiation_state,
                                         _llm_selection_from_start_data(named))
           new   == [copy EXCEPT !.status = "active", !.negotiation_state = state,
                                 !.messages = {}]
<1>2. /\ Loaded(r, "start")
      /\ request[r] # Idle /\ request[r].pc = "loaded" /\ request[r].kind = "start"
      /\ copy \in Rows /\ copy.negotiation_state \in NegotiationStates /\ row \in Rows
  BY LoadedIsRequest DEF start_simulation, IInv, TypeOK
<1>3. /\ state \in NegotiationStates
      /\ state.turns = {} /\ state.stage = "open"
      /\ state.auto_user_proxy_enabled = FALSE /\ state.user_proxy_persona = FALSE
  BY <1>2 DEF _initial_graph_state, _learner_config_from_create_request,
     _llm_selection_from_start_data, normalize_llm_selection, NegotiationStates, LlmSelections
<1>4. copy.status = "created" /\ copy.negotiation_state.stage = "new"
  BY <1>2 DEF IInv, RequestsAreLegal, Legal, CopiesAreConsistent, Consistent
<1>5. state # copy.negotiation_state
  BY <1>3, <1>4
<1> HIDE DEF state
<1>6. /\ new \in Rows /\ new.exists = copy.exists /\ new.status = "active"
      /\ new.negotiation_state = state /\ new.messages = {}
      /\ new.teacher_reviewed = copy.teacher_reviewed /\ new.teacher_id = copy.teacher_id
      /\ new.teacher_feedback = copy.teacher_feedback
  BY <1>2, <1>3 DEF Rows, Statuses, RUNNABLE_STATUSES
<1>7. Replies(r, new)
  BY <1>1 DEF state
<1> HIDE DEF new
<1>8. row' = Flushed(copy, new) /\ row.exists /\ NotesStale(r) /\ Responds(r)
      /\ UNCHANGED <<ledgers, received, faults, turns_taken>>
  BY <1>7 DEF Replies, commit_and_refresh
<1>9. /\ row' \in Rows /\ row'.exists = row.exists /\ row'.status = "active"
      /\ row'.negotiation_state = state
      /\ row'.teacher_reviewed = row.teacher_reviewed /\ row'.teacher_id = row.teacher_id
      /\ row'.teacher_feedback = row.teacher_feedback
  BY <1>2, <1>4, <1>5, <1>6, <1>8, FlushedColumns
<1>10. copy = row => row'.messages = {}
  BY <1>2, <1>6, <1>8, FreshCommit
<1>11. WritesState(r)
  BY <1>2, <1>3, <1>8, <1>9, <1>10 DEF WritesState
<1> QED
  BY <1>2, <1>11, StateCommitKeeps

LEMMA GraphState ==
    ASSUME NEW state \in NegotiationStates, NEW stage \in {"open", "ended"},
           turns_taken + 1 \in Turns
    PROVE  LET g == NegotiationGraphState(state, stage)
           IN  /\ g \in NegotiationStates
               /\ g.turns = state.turns \cup {turns_taken + 1} /\ g.stage = stage
               /\ g.auto_user_proxy_enabled = FALSE /\ g.user_proxy_persona = FALSE
<1> DEFINE g == NegotiationGraphState(state, stage)
<1>1. /\ g.turns = state.turns \cup {turns_taken + 1} /\ g.stage = stage
      /\ g.auto_user_proxy_enabled = FALSE /\ g.user_proxy_persona = FALSE
  BY DEF NegotiationGraphState, _clear_proxy_state, NegotiationStates
<1>2. state.turns \cup {turns_taken + 1} \in SUBSET Turns
  BY DEF NegotiationStates
<1>3. g \in NegotiationStates
  BY <1>2 DEF NegotiationGraphState, _clear_proxy_state, NegotiationStates
<1> QED
  BY <1>1, <1>3

LEMMA TurnHasANumber ==
    ASSUME IInv, NEW r \in Slots, request[r].pc = "loaded"
    PROVE  turns_taken + 1 \in Turns
<1>1. r \in Pending
  BY DEF Pending
<1>2. Cardinality(Pending) # 0
  BY <1>1, PendingIsFinite, FS_EmptySet DEF IInv
<1> QED
  BY <1>2, PendingIsFinite, BoundsAssumption DEF IInv, TypeOK, TurnsAreCounted, Turns

LEMMA TurnKeeps ==
    ASSUME IInv, NEW r \in Slots, submit_simulation_turn(r)
    PROVE  IInv'
<1> DEFINE old == _clear_proxy_state(request[r].copy.negotiation_state)
<1>1. PICK stage \in {"open", "ended"} : TakesTurn(r, NegotiationGraphState(old, stage))
  BY DEF submit_simulation_turn
<1>2. /\ request[r] # Idle /\ request[r].pc = "loaded" /\ request[r].kind = "turn"
      /\ request[r].copy.negotiation_state \in NegotiationStates
  BY LoadedIsRequest DEF submit_simulation_turn, IInv
<1>3. old \in NegotiationStates /\ old.turns = request[r].copy.negotiation_state.turns
  BY <1>2 DEF _clear_proxy_state, NegotiationStates
<1> HIDE DEF old
<1>4. turns_taken + 1 \in Turns
  BY <1>2, TurnHasANumber
<1> QED
  BY <1>1, <1>2, <1>3, <1>4, GraphState, TurnCommitKeeps DEF TurnKinds

(* What a proxy leaves behind: when it answers for the remainder of the    *)
(* negotiation it has a model, otherwise it is off.                        *)
LEMMA ProxySettings ==
    ASSUME NEW state \in NegotiationStates, NEW remainder \in BOOLEAN,
           NEW persona \in BOOLEAN, NEW named \in BOOLEAN
    PROVE  LET s == ProxyState(state, remainder, persona, named)
           IN  /\ s \in NegotiationStates /\ s.turns = state.turns
               /\ s.auto_user_proxy_enabled = remainder
               /\ s.user_proxy_persona = persona
               /\ remainder => s.proxy_selection # "none"
<1>1. CASE ~remainder
  BY <1>1 DEF ProxyState, _set_proxy_state, NegotiationStates
<1>2. CASE remainder
  <2> DEFINE selection == _proxy_llm_selection_for_turn(state, remainder, named)
             set == _set_proxy_state(state, remainder, persona)
  <2>1. selection \in LlmSelections \cup {"none"} /\ selection # "none"
    BY DEF _proxy_llm_selection_for_turn, normalize_llm_selection, LlmSelections,
       NegotiationStates
  <2>2. /\ set \in NegotiationStates /\ set.turns = state.turns
        /\ set.auto_user_proxy_enabled = remainder /\ set.user_proxy_persona = persona
    BY DEF _set_proxy_state, NegotiationStates
  <2>3. ProxyState(state, remainder, persona, named)
            = [set EXCEPT !.proxy_selection = selection]
    BY <1>2 DEF ProxyState, _persist_proxy_llm_selection
  <2> HIDE DEF selection, set
  <2> QED
    BY <2>1, <2>2, <2>3 DEF NegotiationStates
<1> QED
  BY <1>1, <1>2

LEMMA ProxyTurnKeeps ==
    ASSUME IInv, NEW r \in Slots, submit_simulation_proxy_turn(r)
    PROVE  IInv'
<1> DEFINE copy == request[r].copy
<1>1. PICK stage \in {"open", "ended"}, remainder \in BOOLEAN, persona \in BOOLEAN,
           named \in BOOLEAN :
          LET state == ProxyState(copy.negotiation_state, remainder, persona, named)
          IN  TakesTurn(r, _carry_forward_proxy_state(state, NegotiationGraphState(state, stage)))
  BY DEF submit_simulation_proxy_turn
<1> DEFINE source == ProxyState(copy.negotiation_state, remainder, persona, named)
<1>2. /\ request[r] # Idle /\ request[r].pc = "loaded" /\ request[r].kind = "proxy_turn"
      /\ copy.negotiation_state \in NegotiationStates
  BY LoadedIsRequest DEF submit_simulation_proxy_turn, IInv
<1>4. /\ source \in NegotiationStates /\ source.turns = copy.negotiation_state.turns
      /\ source.auto_user_proxy_enabled = remainder
      /\ source.user_proxy_persona = persona
      /\ remainder => source.proxy_selection # "none"
  <2> DEFINE old == copy.negotiation_state
  <2>1. old \in NegotiationStates
    BY <1>2
  <2> HIDE DEF old
  <2>2. LET s == ProxyState(old, remainder, persona, named)
        IN  /\ s \in NegotiationStates /\ s.turns = old.turns
            /\ s.auto_user_proxy_enabled = remainder
            /\ s.user_proxy_persona = persona
            /\ remainder => s.proxy_selection # "none"
    BY <2>1, ProxySettings
  <2> QED
    BY <2>2 DEF old
<1> DEFINE target == NegotiationGraphState(source, stage)
           state  == _carry_forward_proxy_state(source, target)
<1>3. TakesTurn(r, state)
  BY <1>1
<1> HIDE DEF source
<1>5. /\ target \in NegotiationStates
      /\ target.turns = source.turns \cup {turns_taken + 1} /\ target.stage = stage
      /\ target.auto_user_proxy_enabled = FALSE /\ target.user_proxy_persona = FALSE
  BY <1>2, <1>4, TurnHasANumber, GraphState
<1> HIDE DEF target
<1>6. /\ state \in NegotiationStates /\ state.turns = target.turns /\ state.stage = target.stage
      /\ IF state.auto_user_proxy_enabled
         THEN state.proxy_selection # "none" ELSE ~state.user_proxy_persona
  <2>1. CASE ~source.auto_user_proxy_enabled
    BY <1>5, <2>1 DEF _carry_forward_proxy_state
  <2>2. CASE source.auto_user_proxy_enabled
    <3> DEFINE set == _set_proxy_state(target, TRUE, source.user_proxy_persona)
    <3>1. /\ set \in NegotiationStates /\ set.turns = target.turns /\ set.stage = target.stage
          /\ set.auto_user_proxy_enabled = TRUE
      BY <1>4, <1>5 DEF _set_proxy_state, NegotiationStates
    <3>2. state = [set EXCEPT !.proxy_selection = source.proxy_selection]
      BY <2>2 DEF _carry_forward_proxy_state, _persist_proxy_llm_selection
    <3> HIDE DEF set, state
    <3>3. source.proxy_selection # "none"
          /\ source.proxy_selection \in LlmSelections \cup {"none"}
      BY <1>4, <2>2 DEF NegotiationStates
    <3> QED
      BY <3>1, <3>2, <3>3 DEF NegotiationStates
  <2> QED
    BY <2>1, <2>2
<1> HIDE DEF state
<1> QED
  BY <1>2, <1>3, <1>4, <1>5, <1>6, TurnCommitKeeps DEF TurnKinds

LEMMA PersistKeeps ==
    ASSUME IInv, NEW r \in Slots, _persist_evidence_ledgers(r)
    PROVE  IInv'
<1>1. /\ request[r] # Idle /\ request[r].pc = "ledgers" /\ Responds(r)
      /\ ledgers' = ledgers \cup {request[r].turn}
      /\ UNCHANGED <<row, received, faults, turns_taken, stale>>
  BY DEF _persist_evidence_ledgers, create_evidence_ledger
<1>2. /\ request' \in [Slots -> Requests \cup {Idle}]
      /\ request'[r] = Idle
      /\ \A s \in Slots : s # r => request'[s] = request[s]
      /\ RequestsAreLegal' /\ TurnsAreCounted'
      /\ \A s : Consistent(s) => Consistent(s)'
      /\ \A s \in Slots : (request[s] # Idle => Consistent(request[s].copy))'
  BY <1>1, RequestEnds
<1>3. request[r].turn \in 1..turns_taken
  BY <1>1 DEF IInv, RequestsAreLegal, Legal
<1>4. TypeOK'
  <2>1. request[r].turn \in Turns
    BY <1>3, BoundsAssumption DEF IInv, TypeOK, Turns
  <2> QED
    BY <1>1, <1>2, <2>1 DEF IInv, TypeOK
<1>5. CopiesAreConsistent' /\ RowIsConsistent' /\ ReviewedIsCompleted'
  BY <1>1, <1>2
     DEF IInv, CopiesAreConsistent, RowIsConsistent, ReviewedIsCompleted, StaleWriters
<1>6. TurnsAreKept'
  <2>1. \A t : EvidenceIsComing(t) => t = request[r].turn \/ EvidenceIsComing(t)'
    BY <1>2 DEF EvidenceIsComing
  <2> QED
    BY <1>1, <2>1 DEF IInv, TurnsAreKept, StaleWriters
<1>7. ProxiesKeepTheirModel' /\ ReviewsAreWhole'
  BY <1>1 DEF IInv, ProxiesKeepTheirModel, ReviewsAreWhole, StaleWriters
<1> QED
  BY <1>2, <1>4, <1>5, <1>6, <1>7 DEF IInv

LEMMA DisableKeeps ==
    ASSUME IInv, NEW r \in Slots, disable_simulation_proxy(r)
    PROVE  IInv'
<1> DEFINE copy  == request[r].copy
           state == _clear_proxy_state(_graph_state_from_simulation(copy.negotiation_state))
           new   == [copy EXCEPT !.negotiation_state = state,
                                 !.messages = copy.negotiation_state.turns]
<1>1. /\ request[r] # Idle /\ request[r].pc = "loaded" /\ request[r].kind = "disable_proxy"
      /\ copy \in Rows /\ copy.negotiation_state \in NegotiationStates /\ row \in Rows
  BY LoadedIsRequest DEF disable_simulation_proxy, IInv, TypeOK
<1>2. /\ row.exists /\ NotesStale(r) /\ Responds(r)
      /\ UNCHANGED <<ledgers, received, faults, turns_taken>>
      /\ \/ row' = Flushed(copy, new)
         \/ row' = [Flushed(copy, new) EXCEPT !.negotiation_state = state]
  <2>1. new = [copy EXCEPT !.negotiation_state = _clear_proxy_state(_graph_state_from_simulation(@)),
                           !.messages = copy.negotiation_state.turns]
    OBVIOUS
  <2>2. new.negotiation_state = state
    BY <1>1 DEF Rows
  <2> HIDE DEF new
  <2> QED
    BY <2>1, <2>2 DEF disable_simulation_proxy, Replies, commit_and_refresh
<1>3. /\ state \in NegotiationStates /\ state.turns = copy.negotiation_state.turns
      /\ state.stage \in {"seeded", copy.negotiation_state.stage}
      /\ state.auto_user_proxy_enabled = FALSE /\ state.user_proxy_persona = FALSE
  <2> DEFINE seeded == _graph_state_from_simulation(copy.negotiation_state)
  <2>1. /\ seeded \in NegotiationStates /\ seeded.turns = copy.negotiation_state.turns
        /\ seeded.stage \in {"seeded", copy.negotiation_state.stage}
    BY <1>1 DEF _graph_state_from_simulation, NegotiationStates
  <2> HIDE DEF seeded
  <2>2. state = _clear_proxy_state(seeded)
    BY DEF seeded
  <2> QED
    BY <2>1, <2>2 DEF _clear_proxy_state, NegotiationStates
<1> HIDE DEF state
<1>4. /\ new \in Rows /\ new.exists = copy.exists /\ new.status = copy.status
      /\ new.negotiation_state = state /\ new.messages = copy.negotiation_state.turns
      /\ new.teacher_reviewed = copy.teacher_reviewed /\ new.teacher_id = copy.teacher_id
      /\ new.teacher_feedback = copy.teacher_feedback
  <2>1. copy.negotiation_state.turns \in SUBSET Turns
    BY <1>1 DEF NegotiationStates
  <2> QED
    BY <1>1, <1>3, <2>1 DEF Rows
<1> HIDE DEF new
<1>5. LET f == Flushed(copy, new)
      IN  /\ f \in Rows /\ f.exists = row.exists /\ f.status = row.status
          /\ f.negotiation_state \in {state, row.negotiation_state}
          /\ f.teacher_reviewed = row.teacher_reviewed /\ f.teacher_id = row.teacher_id
          /\ f.teacher_feedback = row.teacher_feedback
          /\ copy = row => /\ f.negotiation_state = state
                           /\ f.messages = row.negotiation_state.turns
  BY <1>1, <1>4, FlushedColumns, FreshCommit
<1>6. /\ row' \in Rows /\ row'.exists = row.exists /\ row'.status = row.status
      /\ row'.negotiation_state \in {state, row.negotiation_state}
      /\ row'.teacher_reviewed = row.teacher_reviewed /\ row'.teacher_id = row.teacher_id
      /\ row'.teacher_feedback = row.teacher_feedback
      /\ copy = row => /\ row'.negotiation_state = state
                       /\ row'.messages = row.negotiation_state.turns
  <2>1. CASE row' = Flushed(copy, new)
    BY <1>5, <2>1
  <2>2. CASE row' = [Flushed(copy, new) EXCEPT !.negotiation_state = state]
    <3> DEFINE f == Flushed(copy, new)
    <3>1. row' = [f EXCEPT !.negotiation_state = state]
      BY <2>2
    <3>2. /\ f \in Rows /\ f.exists = row.exists /\ f.status = row.status
          /\ f.teacher_reviewed = row.teacher_reviewed /\ f.teacher_id = row.teacher_id
          /\ f.teacher_feedback = row.teacher_feedback
          /\ copy = row => f.messages = row.negotiation_state.turns
      BY <1>5
    <3> HIDE DEF f
    <3> QED
      BY <1>3, <3>1, <3>2 DEF Rows
  <2> QED
    BY <1>2, <2>1, <2>2
<1>7. WritesState(r)
  BY <1>1, <1>2, <1>3, <1>6 DEF WritesState
<1> QED
  BY <1>1, <1>7, StateCommitKeeps

LEMMA CancelKeeps ==
    ASSUME IInv, NEW r \in Slots, cancel_simulation(r)
    PROVE  IInv'
<1>1. "cancelled" \in Statuses \ {"created"} /\ "cancel" \in ByHandKinds
  BY DEF Statuses, TERMINAL_STATUSES, RUNNABLE_STATUSES, ByHandKinds
<1> QED
  BY <1>1, LoadedIsRequest, ByHandCommitKeeps DEF cancel_simulation, IInv

LEMMA UpdateKeeps ==
    ASSUME IInv, NEW r \in Slots, update_simulation(r)
    PROVE  IInv'
<1>1. PICK status \in ALLOWED_STATUS_TRANSITIONS(request[r].copy.status) :
          Replies(r, [request[r].copy EXCEPT !.status = status])
  BY DEF update_simulation
<1>2. /\ request[r] # Idle /\ request[r].pc = "loaded" /\ request[r].kind = "update"
      /\ request[r].copy.status \in Statuses
  BY LoadedIsRequest DEF update_simulation, IInv, Rows
<1>3. status \in Statuses \ {"created"} /\ "update" \in ByHandKinds
  BY <1>2 DEF ALLOWED_STATUS_TRANSITIONS, Statuses, TERMINAL_STATUSES, RUNNABLE_STATUSES,
     ByHandKinds
<1> QED
  BY <1>1, <1>2, <1>3, ByHandCommitKeeps

LEMMA DeleteKeeps ==
    ASSUME IInv, NEW r \in Slots, delete_simulation(r)
    PROVE  IInv'
<1> DEFINE copy == request[r].copy
<1>1. /\ request[r] # Idle /\ request[r].pc = "loaded" /\ request[r].kind = "delete"
      /\ copy \in Rows /\ row \in Rows /\ request[r].kind \in ByHandKinds
      /\ request[r].kind \in Kinds
  BY LoadedIsRequest, RequestsAreTyped DEF delete_simulation, IInv, TypeOK, ByHandKinds
<1>2. CASE copy.status # "created"
  <2>1. "cancelled" \in Statuses \ {"created"}
    BY DEF Statuses, TERMINAL_STATUSES, RUNNABLE_STATUSES
  <2>2. Replies(r, [copy EXCEPT !.status = "cancelled"])
    BY <1>2 DEF delete_simulation
  <2> QED
    BY <1>1, <2>1, <2>2, ByHandCommitKeeps
<1>3. CASE copy.status = "created"
  <2>1. /\ row.exists /\ row' = [row EXCEPT !.exists = FALSE] /\ NotesStale(r) /\ Responds(r)
        /\ UNCHANGED <<ledgers, received, faults, turns_taken>>
    BY <1>3 DEF delete_simulation
  <2>2. /\ row' \in Rows /\ ~row'.exists
        /\ row'.status = row.status /\ row'.negotiation_state = row.negotiation_state
        /\ row'.messages = row.messages /\ row'.teacher_reviewed = row.teacher_reviewed
        /\ row'.teacher_id = row.teacher_id /\ row'.teacher_feedback = row.teacher_feedback
    BY <1>1, <2>1 DEF Rows
  <2>3. stale \subseteq stale'
    BY <2>1, StaleIsNoted
  <2>4. /\ request' \in [Slots -> Requests \cup {Idle}]
        /\ request'[r] = Idle
        /\ \A s \in Slots : s # r => request'[s] = request[s]
        /\ RequestsAreLegal' /\ TurnsAreCounted'
        /\ \A s : Consistent(s) => Consistent(s)'
        /\ \A s \in Slots : (request[s] # Idle => Consistent(request[s].copy))'
    BY <1>1, <2>1, <2>3, RequestEnds
  <2>5. TypeOK'
    BY <1>1, <2>1, <2>2, <2>4 DEF IInv, TypeOK, NotesStale
  <2>6. CopiesAreConsistent' /\ RowIsConsistent'
    BY <2>1, <2>2, <2>3, <2>4, StaleStays
       DEF IInv, CopiesAreConsistent, RowIsConsistent, Consistent
  <2>7. ReviewedIsCompleted'
    BY <2>2, <2>3, <2>4, StaleStays DEF IInv, ReviewedIsCompleted
  <2>8. TurnsAreKept'
    BY <2>1, <2>2, <2>3, StaleStays DEF IInv, TurnsAreKept
  <2>9. ProxiesKeepTheirModel' /\ ReviewsAreWhole'
    BY <2>2, <2>3, StaleStays DEF IInv, ProxiesKeepTheirModel, ReviewsAreWhole
  <2> QED
    BY <2>4, <2>5, <2>6, <2>7, <2>8, <2>9 DEF IInv
<1> QED
  BY <1>2, <1>3

LEMMA ReviewKeeps ==
    ASSUME IInv, NEW r \in Slots, review_simulation(r)
    PROVE  IInv'
<1> DEFINE copy == request[r].copy
           new  == WithReview(copy, request[r].user)
<1>1. /\ request[r] # Idle /\ request[r].pc = "loaded" /\ request[r].kind = "review"
      /\ copy \in Rows /\ Replies(r, new)
  BY LoadedIsRequest DEF review_simulation, IInv
<1>2. request[r].kind \in ReviewKinds /\ request[r].user \in Users
      /\ request[r].user # NoTeacher
  BY <1>1, TeachersAssumption DEF IInv, RequestsAreLegal, Legal, ReviewKinds
<1>3. /\ new \in Rows /\ new.exists = copy.exists /\ new.status = copy.status
      /\ new.negotiation_state = copy.negotiation_state /\ new.messages = copy.messages
      /\ new.teacher_reviewed = TRUE /\ new.teacher_id = request[r].user
      /\ new.teacher_feedback = request[r].user
  BY <1>1, <1>2 DEF WithReview, Rows
<1> HIDE DEF new
<1> QED
  BY <1>1, <1>2, <1>3, ReviewCommitKeeps

LEMMA UpdateReviewKeeps ==
    ASSUME IInv, NEW r \in Slots, update_review_simulation(r)
    PROVE  IInv'
<1> DEFINE copy == request[r].copy
           new  == WithFeedback(copy, request[r].user)
<1>1. /\ request[r] # Idle /\ request[r].pc = "loaded" /\ request[r].kind = "update_review"
      /\ copy \in Rows /\ Replies(r, new)
  BY LoadedIsRequest DEF update_review_simulation, IInv
<1>2. /\ request[r].kind \in ReviewKinds /\ request[r].user \in Users
      /\ request[r].user # NoTeacher
      /\ copy.teacher_reviewed /\ copy.teacher_id # NoTeacher
      /\ request[r].user \in {copy.teacher_id, Admin}
  BY <1>1, TeachersAssumption DEF IInv, RequestsAreLegal, Legal, ReviewKinds
<1>3. /\ new \in Rows /\ new.exists = copy.exists /\ new.status = copy.status
      /\ new.negotiation_state = copy.negotiation_state /\ new.messages = copy.messages
      /\ new.teacher_reviewed = copy.teacher_reviewed /\ new.teacher_id = copy.teacher_id
      /\ new.teacher_feedback = request[r].user
  BY <1>1, <1>2 DEF WithFeedback, Rows
<1> HIDE DEF new
<1> QED
  BY <1>1, <1>2, <1>3, ReviewCommitKeeps

LEMMA DeleteReviewKeeps ==
    ASSUME IInv, NEW r \in Slots, delete_review_simulation(r)
    PROVE  IInv'
<1> DEFINE copy == request[r].copy
           new  == WithoutReview(copy)
<1>1. /\ request[r] # Idle /\ request[r].pc = "loaded" /\ request[r].kind = "delete_review"
      /\ copy \in Rows /\ Replies(r, new)
  BY LoadedIsRequest DEF delete_review_simulation, IInv
<1>2. request[r].kind \in ReviewKinds
  BY <1>1 DEF ReviewKinds
<1>3. /\ new \in Rows /\ new.exists = copy.exists /\ new.status = copy.status
      /\ new.negotiation_state = copy.negotiation_state /\ new.messages = copy.messages
      /\ new.teacher_reviewed = FALSE /\ new.teacher_id = NoTeacher
      /\ new.teacher_feedback = NoTeacher
  BY <1>1 DEF WithoutReview, Rows
<1> HIDE DEF new
<1> QED
  BY <1>1, <1>2, <1>3, ReviewCommitKeeps

(* A request that ends without a commit. *)
LEMMA EndsKeep ==
    ASSUME IInv, NEW r \in Slots, GivesUp(r) \/ LosesEvidence(r)
    PROVE  IInv'
<1>1. /\ request[r] # Idle /\ Responds(r)
      /\ UNCHANGED <<row, ledgers, received, turns_taken, stale>>
      /\ faults' \in 0..MaxFaults
  BY BoundsAssumption DEF GivesUp, LosesEvidence, IInv, TypeOK
<1>2. /\ request' \in [Slots -> Requests \cup {Idle}]
      /\ request'[r] = Idle
      /\ \A s \in Slots : s # r => request'[s] = request[s]
      /\ RequestsAreLegal' /\ TurnsAreCounted'
      /\ \A s : Consistent(s) => Consistent(s)'
      /\ \A s \in Slots : (request[s] # Idle => Consistent(request[s].copy))'
  BY <1>1, RequestEnds
<1>3. TypeOK'
  BY <1>1, <1>2 DEF IInv, TypeOK
<1>4. CopiesAreConsistent' /\ RowIsConsistent' /\ ReviewedIsCompleted'
  BY <1>1, <1>2
     DEF IInv, CopiesAreConsistent, RowIsConsistent, ReviewedIsCompleted, StaleWriters
<1>5. TurnsAreKept'
  <2>1. CASE request[r].pc = "loaded"
    <3>1. faults' = faults
      BY <2>1 DEF GivesUp, LosesEvidence
    <3>2. \A t : EvidenceIsComing(t) => EvidenceIsComing(t)'
      BY <1>2, <2>1, EvidenceStays
    <3> QED
      BY <1>1, <3>1, <3>2 DEF IInv, TurnsAreKept, StaleWriters
  <2>2. CASE request[r].pc = "ledgers"
    <3>1. row.exists => faults' # 0
      BY <2>2 DEF GivesUp, LosesEvidence, IInv, TypeOK
    <3> QED
      BY <1>1, <3>1 DEF IInv, TurnsAreKept, StaleWriters
  <2> QED
    BY <2>1, <2>2 DEF GivesUp, LosesEvidence
<1>6. ProxiesKeepTheirModel' /\ ReviewsAreWhole'
  BY <1>1 DEF IInv, ProxiesKeepTheirModel, ReviewsAreWhole, StaleWriters
<1> QED
  BY <1>2, <1>3, <1>4, <1>5, <1>6 DEF IInv

-----------------------------------------------------------------------------
LEMMA InitHolds == Init => IInv
<1> SUFFICES ASSUME Init PROVE IInv
  OBVIOUS
<1>1. PICK use_learner_agent \in BOOLEAN : row = NewSimulation(use_learner_agent)
  BY DEF Init
<1>2. /\ ledgers = {} /\ request = [r \in Slots |-> Idle] /\ received = 0
      /\ faults = 0 /\ turns_taken = 0 /\ stale = {}
  BY DEF Init
<1>3. row \in Rows
  BY <1>1 DEF NewSimulation, _learner_config_from_create_request, Rows, NegotiationStates,
     Statuses, LlmSelections, Turns
<1>4. /\ row.status = "created" /\ row.messages = {} /\ row.teacher_reviewed = FALSE
      /\ row.teacher_id = NoTeacher /\ row.teacher_feedback = NoTeacher
      /\ row.negotiation_state.turns = {} /\ row.negotiation_state.stage = "new"
      /\ row.negotiation_state.auto_user_proxy_enabled = FALSE
      /\ row.negotiation_state.user_proxy_persona = FALSE
  BY <1>1 DEF NewSimulation, _learner_config_from_create_request
<1>5. TypeOK
  BY <1>2, <1>3, BoundsAssumption DEF TypeOK
<1>6. TurnsAreCounted
  <2>1. Pending = {}
    BY <1>2 DEF Pending, Idle
  <2> QED
    BY <1>2, <2>1, FS_EmptySet DEF TurnsAreCounted
<1>7. RequestsAreLegal /\ CopiesAreConsistent /\ RowIsConsistent /\ ReviewedIsCompleted
  BY <1>2, <1>4
     DEF RequestsAreLegal, CopiesAreConsistent, RowIsConsistent, Consistent, ReviewedIsCompleted
<1>8. TurnsAreKept /\ ProxiesKeepTheirModel /\ ReviewsAreWhole
  BY <1>2, <1>4 DEF TurnsAreKept, ProxiesKeepTheirModel, ReviewsAreWhole
<1> QED
  BY <1>5, <1>6, <1>7, <1>8 DEF IInv

LEMMA StepKeeps == IInv /\ [Next]_vars => IInv'
<1>1. IInv /\ UNCHANGED vars => IInv'
  BY DEF vars, IInv, TypeOK, RequestsAreLegal, Legal, TurnsAreCounted, Pending,
     CopiesAreConsistent, RowIsConsistent, Consistent, ReviewedIsCompleted, TurnsAreKept,
     EvidenceIsComing, ProxiesKeepTheirModel, ReviewsAreWhole, StaleWriters
<1> QED
  BY <1>1, GetKeeps, StartKeeps, TurnKeeps, ProxyTurnKeeps, PersistKeeps, DisableKeeps,
     CancelKeeps, DeleteKeeps, UpdateKeeps, ReviewKeeps, UpdateReviewKeeps,
     DeleteReviewKeeps, EndsKeep DEF Next

LEMMA Invariance == Spec => []IInv
BY InitHolds, StepKeeps, PTL DEF Spec

(* Every request, row and copy of it stays what the handlers expect, and   *)
(* no turn is taken that no request asked for.                             *)
THEOREM LifecycleTypesHold == Spec => []TypeOK
<1>1. IInv => TypeOK
  BY DEF IInv
<1> QED
  BY <1>1, Invariance, PTL

(* However many requests overlap: a turn that was taken is in the          *)
(* negotiation state and the messages until a request commits an older     *)
(* state, has its evidence or a request about to insert it until an error  *)
(* or a crash, and the negotiation that ended is a completed simulation    *)
(* until a status set by hand is stale (submit_simulation_turn,            *)
(* _persist_evidence_ledgers).                                             *)
THEOREM TurnsSurvive == Spec => []TurnsAreKept
<1>1. IInv => TurnsAreKept
  BY DEF IInv
<1> QED
  BY <1>1, Invariance, PTL

(* A proxy for the remainder has a model, and one that is off leaves no    *)
(* persona, whichever copies are committed (_carry_forward_proxy_state).   *)
THEOREM ProxiesHoldTheirModel == Spec => []ProxiesKeepTheirModel
<1>1. IInv => ProxiesKeepTheirModel
  BY DEF IInv
<1> QED
  BY <1>1, Invariance, PTL

(* Only a stale review breaks the bond of a review, its author and its     *)
(* feedback, and only another stale request leaves a review on what is not *)
(* completed (simulations_service.py, the review operations).              *)
THEOREM ReviewsStayWhole == Spec => []ReviewsAreWhole
<1>1. IInv => ReviewsAreWhole
  BY DEF IInv
<1> QED
  BY <1>1, Invariance, PTL

-----------------------------------------------------------------------------
Frozen ==
    /\ row'.exists = row.exists
    /\ row'.status = row.status
    /\ row'.negotiation_state = row.negotiation_state
    /\ row'.messages = row.messages

(* A request that commits on what is stored cannot be one that an ended    *)
(* simulation refuses.                                                     *)
LEMMA RefusedOnEnded ==
    ASSUME IInv, NEW r \in Slots, request[r] # Idle, NotesStale(r), stale' = {},
           row.status \in TERMINAL_STATUSES
    PROVE  request[r].copy = row /\ request[r].kind \in ReviewKinds
<1>1. request[r].copy = row
  BY StaleIsNoted
<1>2. Legal(request[r]) /\ request[r].kind \in Kinds
  BY RequestsAreTyped DEF IInv, RequestsAreLegal
<1> QED
  BY <1>1, <1>2 DEF Legal, Kinds, ProxyKinds, TERMINAL_STATUSES, RUNNABLE_STATUSES

LEMMA ReviewFreezes ==
    ASSUME IInv, NEW r \in Slots, NEW new, Replies(r, new),
           request[r].copy \in Rows, request[r].copy = row,
           new \in {WithReview(row, request[r].user), WithFeedback(row, request[r].user),
                    WithoutReview(row)}
    PROVE  Frozen
<1>1. row' = Flushed(row, new) /\ row \in Rows
  BY DEF Replies, commit_and_refresh
<1>2. DOMAIN row = {"exists", "status", "negotiation_state", "messages",
                    "teacher_reviewed", "teacher_id", "teacher_feedback"}
  BY <1>1 DEF Rows
<1>3. /\ new.exists = row.exists /\ new.status = row.status
      /\ new.negotiation_state = row.negotiation_state /\ new.messages = row.messages
  BY <1>1 DEF WithReview, WithFeedback, WithoutReview, Rows
<1> QED
  BY <1>1, <1>2, <1>3 DEF Frozen, Flushed

LEMMA StepFreezes ==
    ASSUME IInv, Next, row.status \in TERMINAL_STATUSES, stale' = {}
    PROVE  Frozen
<1> USE DEF IInv
<1>1. PICK r \in Slots :
          \/ get_simulation(r) \/ start_simulation(r) \/ submit_simulation_turn(r)
          \/ submit_simulation_proxy_turn(r) \/ _persist_evidence_ledgers(r)
          \/ disable_simulation_proxy(r) \/ cancel_simulation(r) \/ delete_simulation(r)
          \/ update_simulation(r) \/ review_simulation(r) \/ update_review_simulation(r)
          \/ delete_review_simulation(r) \/ GivesUp(r) \/ LosesEvidence(r)
  BY DEF Next
<1>2. CASE get_simulation(r) \/ _persist_evidence_ledgers(r) \/ GivesUp(r) \/ LosesEvidence(r)
  BY <1>2 DEF get_simulation, _persist_evidence_ledgers, GivesUp, LosesEvidence, Frozen
<1>3. CASE start_simulation(r) \/ submit_simulation_turn(r) \/ submit_simulation_proxy_turn(r)
           \/ disable_simulation_proxy(r) \/ cancel_simulation(r) \/ delete_simulation(r)
           \/ update_simulation(r)
  <2>1. NotesStale(r)
    BY <1>3 DEF start_simulation, submit_simulation_turn, submit_simulation_proxy_turn,
       disable_simulation_proxy, cancel_simulation, delete_simulation, update_simulation,
       TakesTurn, Replies, commit_and_refresh
  <2>2. request[r] # Idle
        /\ request[r].kind \in {"start", "turn", "proxy_turn", "disable_proxy", "cancel",
                                "delete", "update"}
    BY <1>3 DEF start_simulation, submit_simulation_turn, submit_simulation_proxy_turn,
       disable_simulation_proxy, cancel_simulation, delete_simulation, update_simulation,
       Loaded
  <2>3. FALSE
    BY <2>1, <2>2, RefusedOnEnded DEF ReviewKinds
  <2> QED
    BY <2>3
<1>4. CASE review_simulation(r)
  <2>1. /\ Replies(r, WithReview(request[r].copy, request[r].user))
        /\ request[r] # Idle /\ request[r].copy \in Rows /\ NotesStale(r)
    BY <1>4, LoadedIsRequest DEF review_simulation, Replies, commit_and_refresh
  <2> QED
    BY <2>1, RefusedOnEnded, ReviewFreezes
<1>5. CASE update_review_simulation(r)
  <2>1. /\ Replies(r, WithFeedback(request[r].copy, request[r].user))
        /\ request[r] # Idle /\ request[r].copy \in Rows /\ NotesStale(r)
    BY <1>5, LoadedIsRequest DEF update_review_simulation, Replies, commit_and_refresh
  <2> QED
    BY <2>1, RefusedOnEnded, ReviewFreezes
<1>6. CASE delete_review_simulation(r)
  <2>1. /\ Replies(r, WithoutReview(request[r].copy))
        /\ request[r] # Idle /\ request[r].copy \in Rows /\ NotesStale(r)
    BY <1>6, LoadedIsRequest DEF delete_review_simulation, Replies, commit_and_refresh
  <2> QED
    BY <2>1, RefusedOnEnded, ReviewFreezes
<1> QED
  BY <1>1, <1>2, <1>3, <1>4, <1>5, <1>6

(* An ended simulation and its transcript only change under a request that *)
(* overlaps another: what is checked of the copy is true of the row.       *)
THEOREM EndedSimulationsStayFrozen == Spec => EndedSimulationsAreFrozen
<1>1. IInv /\ [Next]_vars =>
          [row.status \in TERMINAL_STATUSES /\ stale' = {} =>
              /\ row'.exists = row.exists
              /\ row'.status = row.status
              /\ row'.negotiation_state = row.negotiation_state
              /\ row'.messages = row.messages]_vars
  BY StepFreezes DEF Frozen, vars
<1> QED
  BY <1>1, Invariance, PTL DEF Spec, EndedSimulationsAreFrozen
=============================================================================

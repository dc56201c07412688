------------------------- MODULE CatalogueProofs --------------------------
(***************************************************************************)
(* Theorems about Catalogue for every set of users, rows, references and   *)
(* slots, and any number of requests.                                      *)
(***************************************************************************)
EXTENDS Catalogue, TLAPS

ItemRequests == Insertions \cup Edits \cup Deletions
AccountRequests == Registrations \cup Replacements \cup Removals
Requests == {Idle} \cup ItemRequests \cup AccountRequests

(* What a request asks for is valid from the moment it enters. *)
AsksForValid(q) ==
    /\ q \in Insertions \cup Edits => Fits(q.new)
    /\ q \in Registrations \cup Replacements => q.roles # {}

AllRaced(i) == \A c \in Bound(i) : child[c].raced

(* What a check has found stays true but for the references inserted since *)
(* then; a chunking profile may change its name alone.                     *)
ChecksHold(q) ==
    /\ q \in Deletions /\ q.pc = "checked" /\ kind # "prompt" =>
           AllRaced(q.target)
    /\ q \in Edits /\ q.pc = "checked" /\ kind \in ProtectedKinds =>
           q.copy = q.new \/ AllRaced(q.target)

Honoured(c) ==
    /\ child[c].pc = "cleared" => child[c].raced
    /\ child[c].pc = "bound" =>
           /\ Kept(child[c].parent)
           /\ kind \in ProtectedKinds /\ ~child[c].raced =>
                  item[child[c].parent].content = child[c].copy

RequestsInv == \A r \in Slots : AsksForValid(request[r]) /\ ChecksHold(request[r])

IInv ==
    /\ TypeOK
    /\ RequestsInv
    /\ \A c \in Children : Honoured(c)
    /\ ProfilesStayConsistent
    /\ EveryAccountHasARole

-----------------------------------------------------------------------------
(* Requests by their operation. *)

LEMMA RequestKinds ==
    ASSUME TypeOK, NEW r \in Slots, request[r] # Idle
    PROVE  /\ request[r].operation \in {"create", "copy"} =>
                  request[r] \in Insertions
           /\ request[r].operation = "update" => request[r] \in Edits
           /\ request[r].operation = "delete" => request[r] \in Deletions
           /\ request[r].operation = "create user" =>
                  request[r] \in Registrations
           /\ request[r].operation = "update user" =>
                  request[r] \in Replacements
           /\ request[r].operation = "delete user" => request[r] \in Removals
  BY DEF TypeOK, Insertions, Edits, Deletions, Registrations, Replacements,
         Removals

(* No check is bound to an idle slot. *)
LEMMA IdleAsksNothing == AsksForValid(Idle) /\ ChecksHold(Idle)
<1>1. Idle \notin Insertions \cup Edits \cup Deletions \cup Registrations
                 \cup Replacements
  BY DEF Idle, Insertions, Edits, Deletions, Registrations, Replacements,
         Progress
<1>2. QED
  BY <1>1 DEF AsksForValid, ChecksHold

(* The kind never changes, and neither does what fits it. *)
LEMMA FitsIsFixed ==
    ASSUME UNCHANGED kind
    PROVE  \A content : Fits(content)' <=> Fits(content)
  BY DEF Fits, StrategyKinds

LEMMA ValidAsksFit ==
    /\ ValidContents \subseteq Contents
    /\ \A content \in ValidContents : Fits(content)
  BY DEF ValidContents

-----------------------------------------------------------------------------
(* Steps of a request up to its commit: only the request changes. *)

RequestStep(r, q) ==
    /\ request' = [request EXCEPT ![r] = q]
    /\ received' \in 0..MaxRequests
    /\ UNCHANGED <<kind, account, item, child, contested, mixed>>

LEMMA RequestStepPreserves ==
    ASSUME IInv, NEW r \in Slots, NEW q \in Requests, RequestStep(r, q),
           AsksForValid(q), ChecksHold(q)
    PROVE  IInv'
<1>1. TypeOK'
  BY DEF IInv, TypeOK, RequestStep, Requests, ItemRequests, AccountRequests
<1>2. RequestsInv'
  <2> SUFFICES ASSUME NEW s \in Slots
               PROVE  (AsksForValid(request[s]) /\ ChecksHold(request[s]))'
    BY DEF RequestsInv
  <2>1. PICK p : p = request'[s]
    OBVIOUS
  <2>2. AsksForValid(p) /\ ChecksHold(p)
    BY <2>1 DEF IInv, RequestsInv, TypeOK, RequestStep
  <2>3. AsksForValid(p)' /\ ChecksHold(p)'
    BY <2>2, FitsIsFixed
       DEF RequestStep, AsksForValid, ChecksHold, AllRaced, Bound
  <2>4. QED
    BY <2>1, <2>3 DEF AsksForValid, ChecksHold, AllRaced, Bound
<1>3. \A c \in Children : Honoured(c)'
  BY DEF IInv, RequestStep, Honoured, Kept
<1>4. ProfilesStayConsistent'
  BY FitsIsFixed DEF IInv, RequestStep, ProfilesStayConsistent, Kept
<1>5. EveryAccountHasARole'
  BY DEF IInv, RequestStep, EveryAccountHasARole, HasAccount
<1>6. QED
  BY <1>1, <1>2, <1>3, <1>4, <1>5 DEF IInv

-----------------------------------------------------------------------------
(* The steps of a request that are not its commit. *)

LEMMA EntersPreserve ==
    ASSUME IInv, NEW r \in Slots, NEW q \in Requests, Enters(r, q),
           AsksForValid(q), q \in Edits \cup Deletions => q.pc = "entered"
    PROVE  IInv'
<1>1. RequestStep(r, q)
  BY CatalogueAssumption DEF Enters, RequestStep, IInv, TypeOK
<1>2. ChecksHold(q)
  BY DEF ChecksHold
<1>3. QED
  BY <1>1, <1>2, RequestStepPreserves

LEMMA CreatesPreserve ==
    ASSUME IInv, NEW r \in Slots, NEW u \in Users, NEW owner \in Owners,
           Creates(r, u, owner)
    PROVE  IInv'
<1>1. PICK i \in Items, content \in ValidContents :
          Enters(r, [pc |-> "entered", operation |-> "create", user |-> u,
                     target |-> i, owner |-> owner, new |-> content])
  BY DEF Creates
<1> DEFINE q == [pc |-> "entered", operation |-> "create", user |-> u,
                 target |-> i, owner |-> owner, new |-> content]
<1>2. content \in Contents /\ Fits(content)
  BY ValidAsksFit
<1>3. q \in Insertions /\ q \notin Edits \cup Deletions \cup AccountRequests
  BY <1>2 DEF Insertions, Edits, Deletions, AccountRequests, Registrations,
              Replacements, Removals, Progress
<1>4. QED
  BY <1>1, <1>2, <1>3, EntersPreserve
     DEF Requests, ItemRequests, AccountRequests, AsksForValid

LEMMA CopiesPreserve ==
    ASSUME IInv, NEW r \in Slots, NEW u \in Users, NEW owner \in Owners,
           kind # "evaluation", Copies(r, u, owner)
    PROVE  IInv'
<1>1. PICK i \in Items, source \in Items :
          \E content \in CopiesOf(item[source].content) :
             Enters(r, [pc |-> "entered", operation |-> "copy", user |-> u,
                        target |-> i, owner |-> owner, new |-> content])
  BY DEF Copies
<1> PICK content \in CopiesOf(item[source].content) :
        Enters(r, [pc |-> "entered", operation |-> "copy", user |-> u,
                   target |-> i, owner |-> owner, new |-> content])
  BY <1>1
<1> DEFINE q == [pc |-> "entered", operation |-> "copy", user |-> u,
                 target |-> i, owner |-> owner, new |-> content]
<1>2. content \in Contents
  BY ValidAsksFit DEF CopiesOf, IInv, TypeOK, Rows
<1>3. Fits(content)
  BY ValidAsksFit DEF CopiesOf, Fits
<1>4. q \in Insertions /\ q \notin Edits \cup Deletions \cup AccountRequests
  BY <1>2 DEF Insertions, Edits, Deletions, AccountRequests, Registrations,
              Replacements, Removals, Progress
<1>5. QED
  BY <1>1, <1>2, <1>3, <1>4, EntersPreserve
     DEF Requests, ItemRequests, AccountRequests, AsksForValid

LEMMA UpdatesPreserve ==
    ASSUME IInv, NEW r \in Slots, NEW writable, Updates(r, writable)
    PROVE  IInv'
<1>1. PICK u \in Users, i \in Items, new \in ValidContents :
          Enters(r, [pc |-> "entered", operation |-> "update", user |-> u,
                     target |-> i, copy |-> item[i].content, new |-> new])
  BY DEF Updates
<1> DEFINE q == [pc |-> "entered", operation |-> "update", user |-> u,
                 target |-> i, copy |-> item[i].content, new |-> new]
<1>2. new \in Contents /\ Fits(new) /\ item[i].content \in Contents
  BY ValidAsksFit DEF IInv, TypeOK, Rows
<1>3. q \in Edits /\ q \notin Registrations \cup Replacements
  BY <1>2 DEF Edits, Registrations, Replacements, Progress
<1>4. QED
  BY <1>1, <1>2, <1>3, EntersPreserve
     DEF Requests, ItemRequests, AccountRequests, AsksForValid

LEMMA DeletesPreserve ==
    ASSUME IInv, NEW r \in Slots, NEW writable, Deletes(r, writable)
    PROVE  IInv'
<1>1. PICK u \in Users, i \in Items :
          Enters(r, [pc |-> "entered", operation |-> "delete", user |-> u,
                     target |-> i])
  BY DEF Deletes
<1> DEFINE q == [pc |-> "entered", operation |-> "delete", user |-> u,
                 target |-> i]
<1>2. q \in Deletions
      /\ q \notin Insertions \cup Edits \cup Registrations \cup Replacements
  BY DEF Deletions, Insertions, Edits, Registrations, Replacements, Progress
<1>3. QED
  BY <1>1, <1>2, EntersPreserve
     DEF Requests, ItemRequests, AccountRequests, AsksForValid

LEMMA AccountServicesPreserve ==
    ASSUME IInv, NEW r \in Slots,
           \/ create_user_service(r)
           \/ update_user_service(r)
           \/ delete_user_service(r)
    PROVE  IInv'
<1>0. get_admin_user \subseteq Users /\ get_current_user \subseteq Users
  BY DEF get_admin_user, require_role, get_current_user
<1>1. CASE create_user_service(r)
  <2>1. PICK u \in Users, v \in Users, roles \in (SUBSET Roles) \ {{}} :
            Enters(r, [pc |-> "entered", operation |-> "create user",
                       user |-> u, target |-> v, roles |-> roles])
    BY <1>0, <1>1 DEF create_user_service
  <2> DEFINE q == [pc |-> "entered", operation |-> "create user", user |-> u,
                   target |-> v, roles |-> roles]
  <2>2. q \in Registrations /\ q \notin Insertions \cup Edits \cup Deletions
    BY DEF Registrations, Insertions, Edits, Deletions, Progress
  <2>3. QED
    BY <2>1, <2>2, EntersPreserve DEF Requests, AccountRequests, AsksForValid
<1>2. CASE update_user_service(r)
  <2>1. PICK u \in Users, v \in Users, roles \in (SUBSET Roles) \ {{}} :
            Enters(r, [pc |-> "entered", operation |-> "update user",
                       user |-> u, target |-> v, roles |-> roles,
                       links |-> {}])
    BY <1>0, <1>2 DEF update_user_service
  <2> DEFINE q == [pc |-> "entered", operation |-> "update user", user |-> u,
                   target |-> v, roles |-> roles, links |-> {}]
  <2>2. q \in Replacements /\ q \notin Insertions \cup Edits \cup Deletions
    BY DEF Replacements, Insertions, Edits, Deletions, Progress
  <2>3. QED
    BY <2>1, <2>2, EntersPreserve DEF Requests, AccountRequests, AsksForValid
<1>3. CASE delete_user_service(r)
  <2>1. PICK u \in Users, v \in Users :
            Enters(r, [pc |-> "entered", operation |-> "delete user",
                       user |-> u, target |-> v])
    BY <1>0, <1>3 DEF delete_user_service
  <2> DEFINE q == [pc |-> "entered", operation |-> "delete user", user |-> u,
                   target |-> v]
  <2>2. q \in Removals
        /\ q \notin Insertions \cup Edits \cup Deletions
                      \cup Registrations \cup Replacements
    BY DEF Removals, Insertions, Edits, Deletions, Registrations,
           Replacements, Progress
  <2>3. QED
    BY <2>1, <2>2, EntersPreserve DEF Requests, AccountRequests, AsksForValid
<1>4. QED
  BY <1>1, <1>2, <1>3

(* A check that passes, if it has found what ChecksHold says. *)
LEMMA ChecksPreserve ==
    ASSUME IInv, NEW r \in Slots, NEW operation, NEW passes \in BOOLEAN,
           Checks(r, operation, passes),
           /\ request[r] # Idle /\ request[r].operation = operation /\ passes =>
                  /\ operation = "delete" /\ kind # "prompt" =>
                         AllRaced(request[r].target)
                  /\ operation = "update" /\ kind \in ProtectedKinds =>
                         \/ request[r].copy = request[r].new
                         \/ AllRaced(request[r].target)
    PROVE  IInv'
<1>1. request[r] # Idle /\ request[r].operation = operation
  BY DEF Checks, At
<1>2. request[r] \in Requests /\ AsksForValid(request[r])
  BY DEF IInv, TypeOK, RequestsInv, Requests, ItemRequests, AccountRequests
<1>3. received' \in 0..MaxRequests
  BY DEF Checks, IInv, TypeOK
<1>4. CASE passes
  <2> DEFINE q == [request[r] EXCEPT !.pc = "checked"]
  <2>1. RequestStep(r, q)
    BY <1>3, <1>4 DEF Checks, RequestStep
  <2>2. /\ request[r] \in Insertions => q \in Insertions
        /\ request[r] \in Edits => q \in Edits
        /\ request[r] \in Deletions => q \in Deletions
        /\ request[r] \in Registrations => q \in Registrations
        /\ request[r] \in Replacements => q \in Replacements
        /\ request[r] \in Removals => q \in Removals
    BY DEF Insertions, Edits, Deletions, Registrations, Replacements,
           Removals, Progress
  <2>3. q \in Requests
    BY <1>1, <1>2, <2>2 DEF Requests, ItemRequests, AccountRequests
  <2>4. /\ q \in Insertions => request[r] \in Insertions
        /\ q \in Edits => request[r] \in Edits
        /\ q \in Deletions => request[r] \in Deletions
        /\ q \in Registrations => request[r] \in Registrations
        /\ q \in Replacements => request[r] \in Replacements
    BY <1>1, <1>2, <2>2 DEF Requests, ItemRequests, AccountRequests,
       Insertions, Edits, Deletions, Registrations, Replacements, Removals
  <2>5. AsksForValid(q)
    BY <1>2, <2>4 DEF AsksForValid, Insertions, Edits, Registrations,
                      Replacements
  <2>6. ChecksHold(q)
    BY <1>1, <1>4, <2>4 DEF ChecksHold, Edits, Deletions
  <2>7. QED
    BY <2>1, <2>3, <2>5, <2>6, RequestStepPreserves
<1>5. CASE ~passes
  <2>1. RequestStep(r, Idle)
    BY <1>3, <1>5 DEF Checks, RequestStep, Responds
  <2>2. QED
    BY <2>1, IdleAsksNothing, RequestStepPreserves DEF Requests
<1>6. QED
  BY <1>4, <1>5

(* What MayDelete and MayUpdate say, whatever the kind. *)
LEMMA ChecksSayEnough ==
    ASSUME TypeOK, NEW i, NEW copy, NEW new
    PROVE  /\ MayDelete(i) /\ kind # "prompt" => AllRaced(i)
           /\ MayUpdate(i, copy, new) /\ kind \in ProtectedKinds =>
                  copy = new \/ AllRaced(i)
<1>1. kind \in AllKinds
  BY CatalogueAssumption DEF TypeOK
<1>2. Bound(i) = {} => AllRaced(i)
  BY DEF AllRaced
<1>3. MayDelete(i) /\ kind # "prompt" => Bound(i) = {}
  BY <1>1 DEF MayDelete, AllKinds, ensure_scenario_unused,
     scenario_has_simulations, ensure_counterpart_persona_unused,
     ensure_rag_profile_unused, ensure_vector_store_unreferenced,
     ensure_chunking_profile_deletable, chunking_profile_has_references,
     session_has_simulations, rag_eval_configuration_has_runs
<1>4. MayUpdate(i, copy, new) /\ kind \in ProtectedKinds =>
          copy = new \/ Bound(i) = {}
  BY <1>1 DEF MayUpdate, AllKinds, ProtectedKinds, ensure_scenario_unused,
     scenario_has_simulations, ensure_counterpart_persona_unused,
     ensure_rag_profile_unused, ensure_vector_store_unreferenced,
     ensure_chunking_profile_can_update, chunking_profile_has_references
<1>5. QED
  BY <1>2, <1>3, <1>4

LEMMA ItemChecksPreserve ==
    ASSUME IInv, NEW r \in Slots,
           \/ ensure_name_available(r)
           \/ ensure_may_update(r)
           \/ ensure_may_delete(r)
    PROVE  IInv'
<1>1. CASE ensure_name_available(r)
  <2>1. PICK operation \in {"create", "copy"}, passes \in BOOLEAN :
            Checks(r, operation, passes)
    <3>1. PICK operation \in {"create", "copy"} :
              Checks(r, operation,
                     IF kind = "session" THEN HasAccount(request[r].owner)
                     ELSE item[request[r].target].row = "free")
      BY <1>1 DEF ensure_name_available
    <3>2. (IF kind = "session" THEN HasAccount(request[r].owner)
           ELSE item[request[r].target].row = "free") \in BOOLEAN
      BY DEF HasAccount
    <3>3. QED
      BY <3>1, <3>2
  <2>2. QED
    BY <2>1, ChecksPreserve
<1>2. CASE ensure_may_update(r)
  <2> DEFINE passes == MayUpdate(request[r].target, request[r].copy,
                                 request[r].new)
  <2>1. PICK found \in BOOLEAN : found <=> passes
    OBVIOUS
  <2>2. Checks(r, "update", found)
    BY <1>2, <2>1 DEF ensure_may_update, Checks
  <2>3. found /\ kind \in ProtectedKinds =>
            \/ request[r].copy = request[r].new
            \/ AllRaced(request[r].target)
    BY <2>1, ChecksSayEnough DEF IInv
  <2>4. QED
    BY <2>2, <2>3, ChecksPreserve
<1>3. CASE ensure_may_delete(r)
  <2>1. PICK found \in BOOLEAN : found <=> MayDelete(request[r].target)
    OBVIOUS
  <2>2. Checks(r, "delete", found)
    BY <1>3, <2>1 DEF ensure_may_delete, Checks
  <2>3. found /\ kind # "prompt" => AllRaced(request[r].target)
    BY <2>1, ChecksSayEnough DEF IInv
  <2>4. QED
    BY <2>2, <2>3, ChecksPreserve
<1>4. QED
  BY <1>1, <1>2, <1>3

LEMMA AccountChecksPreserve ==
    ASSUME IInv, NEW r \in Slots,
           \/ ensure_username_available(r)
           \/ ensure_roles_exist(r)
           \/ ensure_user_deletable(r)
    PROVE  IInv'
<1>1. CASE ensure_username_available(r)
  <2>1. PICK found \in BOOLEAN :
            found <=> account[request[r].target].row = "free"
    OBVIOUS
  <2>2. Checks(r, "create user", found)
    BY <1>1, <2>1 DEF ensure_username_available, Checks
  <2>3. QED
    BY <2>2, ChecksPreserve
<1>2. CASE ensure_roles_exist(r)
  <2> DEFINE q == [request[r] EXCEPT
                       !.pc = "checked",
                       !.links = account[request[r].target].roles]
  <2>1. request[r] # Idle /\ request[r].operation = "update user"
    BY <1>2 DEF ensure_roles_exist, At
  <2>2. request[r] \in Replacements /\ request[r].roles # {}
    BY <2>1, RequestKinds DEF IInv, RequestsInv, AsksForValid
  <2>3. account[request[r].target].roles \in SUBSET Roles
    BY <2>2 DEF IInv, TypeOK, Accounts, Replacements
  <2>4. q \in Replacements /\ q.roles # {}
    BY <2>2, <2>3 DEF Replacements, Progress
  <2>5. q \notin Insertions \cup Edits \cup Deletions
    BY <2>4 DEF Replacements, Insertions, Edits, Deletions
  <2>6. request' = [request EXCEPT ![r] = q]
    BY <1>2 DEF ensure_roles_exist
  <2>7. RequestStep(r, q)
    BY <1>2, <2>6 DEF ensure_roles_exist, RequestStep, IInv, TypeOK
  <2>8. AsksForValid(q) /\ ChecksHold(q) /\ q \in Requests
    BY <2>4, <2>5 DEF AsksForValid, ChecksHold, Requests, AccountRequests
  <2>9. QED
    BY <2>7, <2>8, RequestStepPreserves
<1>3. CASE ensure_user_deletable(r)
  <2>1. PICK found \in BOOLEAN :
            found <=> /\ request[r].user # request[r].target
                      /\ ~user_has_owned_or_referenced_records(request[r].target)
    OBVIOUS
  <2>2. Checks(r, "delete user", found)
    BY <1>3, <2>1 DEF ensure_user_deletable, Checks
  <2>3. QED
    BY <2>2, ChecksPreserve
<1>4. QED
  BY <1>1, <1>2, <1>3

-----------------------------------------------------------------------------
(* Commits. *)

(* A reference that is there after the step was there before, or is marked, *)
(* or no request has checked its row.                                      *)
ReferencesGrowSafely ==
    \A c \in Children :
        child'[c].pc = "bound" =>
            \/ child'[c].raced
            \/ Checkers(child'[c].parent) = {}
            \/ child[c].pc = "bound" /\ child'[c] = child[c]

LEMMA RequestsInvKept ==
    ASSUME IInv, UNCHANGED kind, ReferencesGrowSafely,
           \A s \in Slots : request'[s] \in {Idle, request[s]}
    PROVE  RequestsInv'
<1> SUFFICES ASSUME NEW s \in Slots
             PROVE  (AsksForValid(request[s]) /\ ChecksHold(request[s]))'
  BY DEF RequestsInv
<1>1. PICK p : p = request'[s]
  OBVIOUS
<1>2. AsksForValid(p) /\ ChecksHold(p)
  BY <1>1, IdleAsksNothing DEF IInv, RequestsInv
<1>3. AsksForValid(p)'
  BY <1>2, FitsIsFixed DEF AsksForValid
<1>4. ASSUME AllRaced(p.target), p \in Edits \cup Deletions, p.pc = "checked"
      PROVE  AllRaced(p.target)'
  <2>1. p = request[s] /\ p # Idle
    BY <1>1, <1>4 DEF Edits, Deletions, Idle
  <2>2. s \in Checkers(p.target)
    BY <1>4, <2>1 DEF Checkers, At, Edits, Deletions
  <2>3. QED
    BY <1>4, <2>2 DEF AllRaced, Bound, ReferencesGrowSafely
<1>5. ChecksHold(p)'
  BY <1>2, <1>4 DEF ChecksHold
<1>6. QED
  BY <1>1, <1>3, <1>5 DEF AsksForValid, ChecksHold, AllRaced, Bound

(* The slot of a request that has committed is free. *)
LEMMA RespondsFrees ==
    ASSUME TypeOK, NEW r \in Slots, NEW operation, Commits(r, operation)
    PROVE  /\ \A s \in Slots : request'[s] \in {Idle, request[s]}
           /\ request' \in [Slots -> {Idle} \cup Insertions \cup Edits
                                \cup Deletions \cup Registrations
                                \cup Replacements \cup Removals]
           /\ request[r] # Idle /\ request[r].pc = "checked"
           /\ request[r].operation = operation
  BY DEF TypeOK, Commits, Responds, At

LEMMA InsertsPreserve ==
    ASSUME IInv, NEW r \in Slots, NEW operation \in {"create", "copy"},
           Inserts(r, operation)
    PROVE  IInv'
<1>1. Commits(r, operation)
      /\ UNCHANGED <<kind, account, child, received, contested, mixed>>
  BY DEF Inserts
<1>2. request[r] \in Insertions /\ Fits(request[r].new)
  BY <1>1, RespondsFrees, RequestKinds
     DEF IInv, RequestsInv, AsksForValid
<1> DEFINE i == request[r].target
           to == [NoItem EXCEPT !.row = "kept", !.owner = request[r].owner,
                                !.content = request[r].new]
<1>3. i \in Items /\ to \in Rows /\ to.row = "kept" /\ to.content = request[r].new
  BY <1>2 DEF Insertions, NoItem, Rows, Owners
<1>4. item' \in {item, [item EXCEPT ![i] = to]}
      /\ (item' # item => item[i].row = "free")
  BY DEF Inserts
<1> HIDE DEF to
<1>5. \A j \in Items : /\ item'[j] # item[j] => j = i /\ item[i].row = "free"
                       /\ item'[j] = item[j] \/ item'[j] = to
  BY <1>3, <1>4 DEF IInv, TypeOK
<1>6. TypeOK'
  BY <1>1, <1>3, <1>4, RespondsFrees DEF IInv, TypeOK
<1>7. RequestsInv'
  BY <1>1, RespondsFrees, RequestsInvKept DEF IInv, ReferencesGrowSafely
<1>8. \A c \in Children : Honoured(c)'
  <2> SUFFICES ASSUME NEW c \in Children PROVE Honoured(c)'
    OBVIOUS
  <2>1. child[c].pc = "bound" => child[c].parent \in Items
    BY DEF IInv, TypeOK, NoChild, References
  <2>2. QED
    BY <1>1, <1>5, <2>1 DEF IInv, Honoured, Kept
<1>9. ProfilesStayConsistent'
  BY <1>1, <1>2, <1>3, <1>5, FitsIsFixed DEF IInv, ProfilesStayConsistent, Kept
<1>10. EveryAccountHasARole'
  BY <1>1 DEF IInv, EveryAccountHasARole, HasAccount
<1>11. QED
  BY <1>6, <1>7, <1>8, <1>9, <1>10 DEF IInv

LEMMA WritesPreserve ==
    ASSUME IInv, NEW r \in Slots, NEW editor \in {request[r].user, NoUser},
           WritesColumns(r, editor)
    PROVE  IInv'
<1>1. Commits(r, "update")
      /\ UNCHANGED <<kind, account, child, received, contested>>
  BY DEF WritesColumns
<1>2. request[r] \in Edits /\ Fits(request[r].new) /\ ChecksHold(request[r])
      /\ request[r].pc = "checked"
  BY <1>1, RespondsFrees, RequestKinds DEF IInv, RequestsInv, AsksForValid
<1> DEFINE i    == request[r].target
           copy == request[r].copy
           new  == request[r].new
           text == Flushed(copy, new, item[i].content)
<1>3. i \in Items /\ copy \in Contents /\ new \in Contents
      /\ item[i].content \in Contents
  BY <1>2 DEF Edits, IInv, TypeOK, Rows
<1>4. text \in Contents
  BY <1>3 DEF Flushed, Contents
<1>5. copy = item[i].content => text = new
  BY <1>3 DEF Flushed, Contents
<1>6. copy = new => text = item[i].content
  BY <1>3 DEF Flushed, Contents
<1> HIDE DEF text
<1>7. \/ UNCHANGED <<item, mixed>>
      \/ /\ Kept(i) /\ MayRefer(editor)
         /\ item' = [item EXCEPT ![i].content = text, ![i].editor = editor]
         /\ mixed' = IF copy = item[i].content THEN mixed ELSE mixed \cup {i}
  BY DEF WritesColumns, text
<1>8. CASE UNCHANGED <<item, mixed>>
  <2>1. TypeOK'
    BY <1>1, <1>8, RespondsFrees DEF IInv, TypeOK
  <2>2. RequestsInv'
    BY <1>1, RespondsFrees, RequestsInvKept DEF IInv, ReferencesGrowSafely
  <2>3. QED
    BY <1>1, <1>8, <2>1, <2>2, FitsIsFixed
       DEF IInv, Honoured, Kept, ProfilesStayConsistent, EveryAccountHasARole,
           HasAccount
<1>9. CASE /\ Kept(i) /\ MayRefer(editor)
           /\ item' = [item EXCEPT ![i].content = text, ![i].editor = editor]
           /\ mixed' = IF copy = item[i].content THEN mixed ELSE mixed \cup {i}
  <2>0. editor \in Owners
    BY <1>2 DEF Edits, Owners
  <2>1. item' \in [Items -> Rows]
    BY <1>3, <1>4, <1>9, <2>0 DEF IInv, TypeOK, Rows
  <2>2. \A j \in Items : /\ item'[j].row = item[j].row
                         /\ item'[j].content = IF j = i THEN text
                                               ELSE item[j].content
    BY <1>3, <1>9 DEF IInv, TypeOK, Rows
  <2>3. TypeOK'
    BY <1>1, <1>3, <1>9, <2>1, RespondsFrees DEF IInv, TypeOK
  <2>4. RequestsInv'
    BY <1>1, RespondsFrees, RequestsInvKept DEF IInv, ReferencesGrowSafely
  <2>5. \A c \in Children : Honoured(c)'
    <3> SUFFICES ASSUME NEW c \in Children PROVE Honoured(c)'
      OBVIOUS
    <3>1. child[c].pc = "bound" => child[c].parent \in Items
      BY DEF IInv, TypeOK, NoChild, References
    <3>2. /\ child[c].pc = "bound" /\ child[c].parent = i
          /\ kind \in ProtectedKinds /\ ~child[c].raced
          => text = item[i].content
      BY <1>2, <1>6 DEF ChecksHold, AllRaced, Bound
    <3>3. QED
      BY <1>1, <2>2, <3>1, <3>2 DEF IInv, Honoured, Kept
  <2>6. ProfilesStayConsistent'
    BY <1>1, <1>2, <1>5, <1>9, <2>2, FitsIsFixed
       DEF IInv, ProfilesStayConsistent, Kept
  <2>7. EveryAccountHasARole'
    BY <1>1 DEF IInv, EveryAccountHasARole, HasAccount
  <2>8. QED
    BY <2>3, <2>4, <2>5, <2>6, <2>7 DEF IInv
<1>10. QED
  BY <1>7, <1>8, <1>9

LEMMA DeletesRowPreserve ==
    ASSUME IInv, NEW r \in Slots, NEW cleared \in BOOLEAN,
           DeletesRow(r, cleared), cleared => kind # "prompt"
    PROVE  IInv'
<1>1. Commits(r, "delete")
      /\ UNCHANGED <<kind, account, received, contested, mixed>>
  BY DEF DeletesRow
<1>2. request[r] \in Deletions /\ ChecksHold(request[r])
      /\ request[r].pc = "checked"
  BY <1>1, RespondsFrees, RequestKinds DEF IInv, RequestsInv
<1> DEFINE i == request[r].target
<1>3. i \in Items
  BY <1>2 DEF Deletions
<1>4. CASE UNCHANGED <<item, child>>
  <2>1. TypeOK'
    BY <1>1, <1>4, RespondsFrees DEF IInv, TypeOK
  <2>2. RequestsInv'
    BY <1>1, <1>4, RespondsFrees, RequestsInvKept DEF IInv, ReferencesGrowSafely
  <2>3. QED
    BY <1>1, <1>4, <2>1, <2>2, FitsIsFixed
       DEF IInv, Honoured, Kept, ProfilesStayConsistent, EveryAccountHasARole,
           HasAccount
<1>5. CASE /\ Bound(i) = {} \/ cleared
           /\ item' = [item EXCEPT ![i] = [NoItem EXCEPT !.row = "gone"]]
           /\ child' = [c \in Children |->
                  IF c \in Bound(i) THEN [child[c] EXCEPT !.pc = "cleared"]
                  ELSE child[c]]
  <2>0. AllRaced(i)
    BY <1>2, <1>5 DEF ChecksHold, AllRaced
  <2>1. \A c \in Bound(i) : c \in Children /\ child[c] \in References
    BY DEF Bound, IInv, TypeOK, NoChild
  <2>2. [NoItem EXCEPT !.row = "gone"] \in Rows
    BY DEF NoItem, Rows, Owners, Contents, Strategies
  <2>3. item' \in [Items -> Rows]
    BY <1>3, <1>5, <2>2 DEF IInv, TypeOK
  <2>4. child' \in [Children -> {NoChild} \cup References]
    BY <1>5, <2>1 DEF IInv, TypeOK, References
  <2>5. \A j \in Items : IF j = i THEN item'[j].row = "gone"
                         ELSE item'[j] = item[j]
    BY <1>3, <1>5 DEF IInv, TypeOK, NoItem
  <2>6. \A c \in Children :
            \/ child'[c] = child[c] /\ c \notin Bound(i)
            \/ child'[c].pc = "cleared" /\ child'[c].raced
    BY <1>5, <2>0, <2>1 DEF AllRaced, References
  <2>7. TypeOK'
    BY <1>1, <2>3, <2>4, RespondsFrees DEF IInv, TypeOK
  <2>8. ReferencesGrowSafely
    BY <2>6 DEF ReferencesGrowSafely
  <2>9. RequestsInv'
    BY <1>1, <2>8, RespondsFrees, RequestsInvKept DEF IInv
  <2>10. \A c \in Children : Honoured(c)'
    <3> SUFFICES ASSUME NEW c \in Children PROVE Honoured(c)'
      OBVIOUS
    <3>1. child[c].pc = "bound" => child[c].parent \in Items
      BY DEF IInv, TypeOK, NoChild, References
    <3>2. QED
      BY <1>1, <2>5, <2>6, <3>1 DEF IInv, Honoured, Kept, Bound
  <2>11. ProfilesStayConsistent'
    BY <1>1, <2>5, FitsIsFixed DEF IInv, ProfilesStayConsistent, Kept
  <2>12. EveryAccountHasARole'
    BY <1>1 DEF IInv, EveryAccountHasARole, HasAccount
  <2>13. QED
    BY <2>7, <2>9, <2>10, <2>11, <2>12 DEF IInv
<1>6. QED
  BY <1>4, <1>5 DEF DeletesRow

LEMMA CreateUserPreserves ==
    ASSUME IInv, NEW r \in Slots, create_user(r)
    PROVE  IInv'
<1>1. Commits(r, "create user")
      /\ UNCHANGED <<kind, item, child, received, contested, mixed>>
  BY DEF create_user
<1>2. request[r] \in Registrations /\ request[r].roles # {}
  BY <1>1, RespondsFrees, RequestKinds DEF IInv, RequestsInv, AsksForValid
<1> DEFINE u == request[r].target
           to == [row |-> "kept", roles |-> request[r].roles,
                  creator |-> request[r].user]
<1>3. u \in Users /\ to \in Accounts /\ to.roles # {}
  BY <1>2 DEF Registrations, Accounts, Owners
<1> HIDE DEF to
<1>4. account' = account \/ account' = [account EXCEPT ![u] = to]
  BY DEF create_user, to
<1>5. TypeOK'
  <2>1. account' \in [Users -> Accounts]
    BY <1>3, <1>4 DEF IInv, TypeOK
  <2>2. QED
    BY <1>1, <2>1, RespondsFrees DEF IInv, TypeOK
<1>6. RequestsInv'
  BY <1>1, RespondsFrees, RequestsInvKept DEF IInv, ReferencesGrowSafely
<1>7. \A c \in Children : Honoured(c)'
  BY <1>1 DEF IInv, Honoured, Kept
<1>8. ProfilesStayConsistent'
  BY <1>1, FitsIsFixed DEF IInv, ProfilesStayConsistent, Kept
<1>9. EveryAccountHasARole'
  BY <1>1, <1>3, <1>4 DEF IInv, TypeOK, EveryAccountHasARole, HasAccount
<1>10. QED
  BY <1>5, <1>6, <1>7, <1>8, <1>9 DEF IInv

(* A replacement that has seen the roles it replaces leaves those it names. *)
LEMMA RolesLeftExactly ==
    ASSUME NEW new, NEW stored
    PROVE  RolesLeft(new, stored, stored) = new
  BY DEF RolesLeft

LEMMA ReplaceRolesPreserves ==
    ASSUME IInv, NEW r \in Slots, replace_user_roles(r)
    PROVE  IInv'
<1>1. Commits(r, "update user")
      /\ UNCHANGED <<kind, item, child, received, mixed>>
  BY DEF replace_user_roles
<1>2. request[r] \in Replacements /\ request[r].roles # {}
  BY <1>1, RespondsFrees, RequestKinds DEF IInv, RequestsInv, AsksForValid
<1> DEFINE u      == request[r].target
           stored == account[u].roles
           left   == RolesLeft(request[r].roles, request[r].links, stored)
<1>3. u \in Users /\ stored \in SUBSET Roles /\ left \in SUBSET Roles
  BY <1>2 DEF Replacements, IInv, TypeOK, Accounts, RolesLeft
<1>4. request[r].links = stored => left # {}
  BY <1>2, RolesLeftExactly
<1> HIDE DEF left
<1>5. \/ UNCHANGED <<account, contested>>
      \/ /\ account' = [account EXCEPT ![u].roles = left]
         /\ contested' = IF request[r].links = stored THEN contested
                         ELSE contested \cup {u}
  BY DEF replace_user_roles, left
<1>6. account' \in [Users -> Accounts] /\ contested' \subseteq Users
  BY <1>3, <1>5 DEF IInv, TypeOK, Accounts
<1>7. TypeOK'
  BY <1>1, <1>6, RespondsFrees DEF IInv, TypeOK
<1>8. RequestsInv'
  BY <1>1, RespondsFrees, RequestsInvKept DEF IInv, ReferencesGrowSafely
<1>9. \A c \in Children : Honoured(c)'
  BY <1>1 DEF IInv, Honoured, Kept
<1>10. ProfilesStayConsistent'
  BY <1>1, FitsIsFixed DEF IInv, ProfilesStayConsistent, Kept
<1>11. EveryAccountHasARole'
  BY <1>3, <1>4, <1>5 DEF IInv, TypeOK, Accounts, EveryAccountHasARole, HasAccount
<1>12. QED
  BY <1>7, <1>8, <1>9, <1>10, <1>11 DEF IInv

LEMMA DeleteUserPreserves ==
    ASSUME IInv, NEW r \in Slots, delete_user(r)
    PROVE  IInv'
<1>1. Commits(r, "delete user")
      /\ UNCHANGED <<kind, child, received, contested, mixed>>
  BY DEF delete_user
<1>2. request[r] \in Removals
  BY <1>1, RespondsFrees, RequestKinds DEF IInv
<1> DEFINE u == request[r].target
<1>3. u \in Users
  BY <1>2 DEF Removals
<1>4. [NoAccount EXCEPT !.row = "gone"] \in Accounts
  BY DEF NoAccount, Accounts, Owners
<1>5. /\ account' \in [Users -> Accounts]
      /\ \A v \in Users : account'[v] = account[v] \/ account'[v].row = "gone"
  BY <1>3, <1>4, ZenonT(40) DEF delete_user, NoAccount, IInv, TypeOK
<1>6. /\ item' \in [Items -> Rows]
      /\ \A i \in Items : item'[i].row = item[i].row
                          /\ item'[i].content = item[i].content
  <2>1. CASE UNCHANGED item
    BY <2>1 DEF IInv, TypeOK
  <2>2. CASE item' = [i \in Items |-> [item[i] EXCEPT
                 !.owner = IF i \in OwnedBy(u) THEN NoUser ELSE @,
                 !.editor = IF i \in EditedBy(u) THEN NoUser ELSE @]]
    <3>1. ASSUME NEW i \in Items
          PROVE  /\ item'[i] \in Rows
                 /\ item'[i].row = item[i].row
                 /\ item'[i].content = item[i].content
      <4>1. PICK owner, editor :
                /\ item'[i] = [item[i] EXCEPT !.owner = owner, !.editor = editor]
                /\ owner \in {NoUser, item[i].owner}
                /\ editor \in {NoUser, item[i].editor}
        BY <2>2
      <4>2. item[i] \in Rows
        BY DEF IInv, TypeOK
      <4>3. QED
        BY <4>1, <4>2 DEF Rows, Owners
    <3>2. QED
      BY <2>2, <3>1
  <2>3. QED
    BY <2>1, <2>2 DEF delete_user
<1>7. \A i \in Items : item'[i].row = item[i].row
                       /\ item'[i].content = item[i].content
  BY <1>6
<1>8. TypeOK'
  BY <1>1, <1>5, <1>6, RespondsFrees DEF IInv, TypeOK
<1>9. RequestsInv'
  BY <1>1, RespondsFrees, RequestsInvKept DEF IInv, ReferencesGrowSafely
<1>10. \A c \in Children : Honoured(c)'
  <2> SUFFICES ASSUME NEW c \in Children PROVE Honoured(c)'
    OBVIOUS
  <2>1. child[c].pc = "bound" => child[c].parent \in Items
    BY DEF IInv, TypeOK, NoChild, References
  <2>2. QED
    BY <1>1, <1>7, <2>1 DEF IInv, Honoured, Kept
<1>11. ProfilesStayConsistent'
  BY <1>1, <1>7, FitsIsFixed DEF IInv, ProfilesStayConsistent, Kept
<1>12. EveryAccountHasARole'
  BY <1>1, <1>5 DEF IInv, EveryAccountHasARole, HasAccount
<1>13. QED
  BY <1>8, <1>9, <1>10, <1>11, <1>12 DEF IInv

-----------------------------------------------------------------------------
(* The rows that refer. *)

LEMMA ReferenceStepsPreserve ==
    ASSUME IInv, NEW c \in Children,
           read_reference(c) \/ insert_reference(c) \/ delete_reference(c)
    PROVE  IInv'
<1>1. ChildFrame
  BY DEF read_reference, insert_reference, delete_reference
<1>2. PICK to \in {NoChild} \cup References :
          /\ child' = [child EXCEPT ![c] = to]
          /\ to.pc # "cleared"
          /\ to.pc = "bound" =>
                 /\ Kept(to.parent) /\ to.parent \in Items
                 /\ \/ to.raced
                    \/ /\ Checkers(to.parent) = {}
                       /\ to.copy = item[to.parent].content
  <2>1. CASE read_reference(c)
    <3>1. PICK i \in Items :
              child' = [child EXCEPT ![c] =
                           [pc |-> "read", parent |-> i,
                            copy |-> item[i].content, raced |-> FALSE]]
      BY <2>1 DEF read_reference
    <3> DEFINE to == [pc |-> "read", parent |-> i, copy |-> item[i].content,
                      raced |-> FALSE]
    <3>2. to \in References /\ to.pc = "read"
      BY DEF References, IInv, TypeOK, Rows
    <3> HIDE DEF to
    <3>3. child' = [child EXCEPT ![c] = to]
      BY <3>1 DEF to
    <3>4. QED
      BY <3>2, <3>3
  <2>2. CASE insert_reference(c) /\ Kept(child[c].parent)
    <3> DEFINE raced == \/ Checkers(child[c].parent) # {}
                        \/ child[c].copy # item[child[c].parent].content
               to == [child[c] EXCEPT !.pc = "bound", !.raced = raced]
    <3>1. child[c].pc = "read" /\ child[c] \in References
      BY <2>2 DEF insert_reference, IInv, TypeOK, NoChild
    <3>2. child' = [child EXCEPT ![c] = to]
      BY <2>2 DEF insert_reference
    <3>3. raced \in BOOLEAN
      OBVIOUS
    <3>4. /\ to \in References /\ to.pc = "bound"
          /\ to.parent = child[c].parent /\ to.copy = child[c].copy
          /\ to.raced <=> raced
      BY <3>1, <3>3 DEF References
    <3>5. to.parent \in Items
      BY <3>4 DEF References
    <3> HIDE DEF to
    <3>6. QED
      BY <2>2, <3>2, <3>4, <3>5
  <2>3. CASE \/ insert_reference(c) /\ ~Kept(child[c].parent)
             \/ delete_reference(c)
    <3>1. child' = [child EXCEPT ![c] = NoChild]
      BY <2>3 DEF insert_reference, delete_reference
    <3>2. NoChild.pc = "none"
      BY DEF NoChild
    <3>3. QED
      BY <3>1, <3>2
  <2>5. QED
    BY <2>1, <2>2, <2>3
<1>3. \A d \in Children : child'[d] = IF d = c THEN to ELSE child[d]
  BY <1>2 DEF IInv, TypeOK
<1>4. TypeOK'
  BY <1>1, <1>2 DEF IInv, TypeOK, ChildFrame
<1>5. ReferencesGrowSafely
  BY <1>2, <1>3 DEF ReferencesGrowSafely
<1>6. RequestsInv'
  BY <1>1, <1>5, RequestsInvKept DEF IInv, ChildFrame
<1>7. \A d \in Children : Honoured(d)'
  BY <1>1, <1>2, <1>3 DEF IInv, Honoured, Kept, ChildFrame
<1>8. ProfilesStayConsistent'
  BY <1>1, FitsIsFixed DEF IInv, ProfilesStayConsistent, Kept, ChildFrame
<1>9. EveryAccountHasARole'
  BY <1>1 DEF IInv, EveryAccountHasARole, HasAccount, ChildFrame
<1>10. QED
  BY <1>4, <1>6, <1>7, <1>8, <1>9 DEF IInv

-----------------------------------------------------------------------------
(* The routes, by what their services and repositories do to a row.        *)

LEMMA WhoMayAsk ==
    /\ get_current_user \subseteq Users
    /\ get_admin_user \subseteq Users
    /\ get_copyable_counterpart_persona \subseteq Users
    /\ require_any_role(Roles) \subseteq Users
    /\ \A u \in Users : u \in Owners
    /\ NoUser \in Owners
  BY DEF get_current_user, get_admin_user, get_copyable_counterpart_persona,
         require_role, require_any_role, Owners

LEMMA ServicesPreserve ==
    ASSUME IInv, NEW r \in Slots, kind # "evaluation",
           \/ create_scenario_srvc(r)            \/ copy_scenario_srvc(r)
           \/ update_scenario_srvc(r)            \/ delete_scenario_srvc(r)
           \/ create_counterpart_persona_srvc(r) \/ copy_counterpart_persona_srvc(r)
           \/ update_counterpart_persona_srvc(r) \/ delete_counterpart_persona_srvc(r)
           \/ create_rag_profile_srvc(r)         \/ copy_rag_profile_srvc(r)
           \/ update_rag_profile_srvc(r)         \/ delete_rag_profile_srvc(r)
           \/ create_prompt_srvc(r)              \/ copy_prompt_srvc(r)
           \/ update_prompt_srvc(r)              \/ delete_prompt_srvc(r)
           \/ create_chunking_profile_srvc(r)    \/ copy_chunking_profile_srvc(r)
           \/ update_chunking_profile_srvc(r)    \/ delete_chunking_profile_srvc(r)
           \/ create_vector_store_srvc(r)
           \/ update_vector_store_srvc(r)        \/ delete_vector_store_srvc(r)
           \/ create_session_srvc(r)             \/ create_login_session_srvc(r)
           \/ update_session_srvc(r)             \/ delete_session_srvc(r)
    PROVE  IInv'
<1>1. \/ \E u \in Users, owner \in Owners : Creates(r, u, owner)
      \/ \E u \in Users, owner \in Owners : Copies(r, u, owner)
      \/ \E writable : Updates(r, writable)
      \/ \E writable : Deletes(r, writable)
  <2>1. CASE \/ create_scenario_srvc(r) \/ create_counterpart_persona_srvc(r)
             \/ create_rag_profile_srvc(r) \/ create_prompt_srvc(r)
             \/ create_chunking_profile_srvc(r) \/ create_vector_store_srvc(r)
             \/ create_session_srvc(r) \/ create_login_session_srvc(r)
    BY <2>1, WhoMayAsk
       DEF create_scenario_srvc, create_counterpart_persona_srvc,
           create_rag_profile_srvc, create_prompt_srvc,
           create_chunking_profile_srvc, create_vector_store_srvc,
           create_session_srvc, create_login_session_srvc
  <2>2. CASE \/ copy_scenario_srvc(r) \/ copy_counterpart_persona_srvc(r)
             \/ copy_rag_profile_srvc(r) \/ copy_prompt_srvc(r)
             \/ copy_chunking_profile_srvc(r)
    BY <2>2, WhoMayAsk
       DEF copy_scenario_srvc, copy_counterpart_persona_srvc,
           copy_rag_profile_srvc, copy_prompt_srvc, copy_chunking_profile_srvc
  <2>3. QED
    BY <2>1, <2>2
       DEF update_scenario_srvc, update_counterpart_persona_srvc,
           update_rag_profile_srvc, update_prompt_srvc,
           update_chunking_profile_srvc, update_vector_store_srvc,
           update_session_srvc, delete_scenario_srvc,
           delete_counterpart_persona_srvc, delete_rag_profile_srvc,
           delete_prompt_srvc, delete_chunking_profile_srvc,
           delete_vector_store_srvc, delete_session_srvc
<1>2. QED
  BY <1>1, CreatesPreserve, CopiesPreserve, UpdatesPreserve, DeletesPreserve

LEMMA RepositoriesPreserve ==
    ASSUME IInv, NEW r \in Slots,
           \/ \E operation \in {"create", "copy"} : Inserts(r, operation)
           \/ \E editor \in {request[r].user, NoUser} : WritesColumns(r, editor)
           \/ DeletesRow(r, FALSE)
           \/ DeletesRow(r, TRUE) /\ kind # "prompt"
    PROVE  IInv'
  BY InsertsPreserve, WritesPreserve, DeletesRowPreserve

LEMMA RoutesPreserve ==
    ASSUME IInv, NEW r \in Slots,
           \/ scenarios_route(r)         \/ counterpart_personas_route(r)
           \/ rag_profiles_route(r)      \/ prompts_route(r)
           \/ chunking_profiles_route(r) \/ vector_stores_route(r)
           \/ sessions_route(r)          \/ rag_eval_route(r)
    PROVE  IInv'
<1>1. CASE scenarios_route(r)
  BY <1>1, ServicesPreserve, RepositoriesPreserve
     DEF scenarios_route, create_scenario, copy_scenario, update_scenario,
         delete_scenario
<1>2. CASE counterpart_personas_route(r)
  BY <1>2, ServicesPreserve, RepositoriesPreserve
     DEF counterpart_personas_route, create_counterpart_persona,
         copy_counterpart_persona, update_counterpart_persona,
         delete_counterpart_persona
<1>3. CASE rag_profiles_route(r)
  BY <1>3, ServicesPreserve, RepositoriesPreserve
     DEF rag_profiles_route, create_rag_profile, copy_rag_profile,
         update_rag_profile, delete_rag_profile
<1>4. CASE prompts_route(r)
  BY <1>4, ServicesPreserve, RepositoriesPreserve
     DEF prompts_route, create_prompt, copy_prompt, admin_update_prompt,
         delete_prompt
<1>5. CASE chunking_profiles_route(r)
  BY <1>5, ServicesPreserve, RepositoriesPreserve
     DEF chunking_profiles_route, create_chunking_profile,
         copy_chunking_profile, update_chunking_profile,
         delete_chunking_profile
<1>6. CASE vector_stores_route(r)
  BY <1>6, ServicesPreserve, RepositoriesPreserve
     DEF vector_stores_route, create_vector_store, update_vector_store,
         delete_vector_store
<1>7. CASE sessions_route(r)
  BY <1>7, ServicesPreserve, RepositoriesPreserve
     DEF sessions_route, create_session, update_session, delete_session
<1>8. CASE rag_eval_route(r)
  <2>1. CASE create_rag_eval_configuration_srvc(r)
    BY <2>1, WhoMayAsk, CreatesPreserve DEF create_rag_eval_configuration_srvc
  <2>2. CASE \/ update_rag_eval_configuration_srvc(r)
             \/ delete_rag_eval_configuration_srvc(r)
    BY <2>2, UpdatesPreserve, DeletesPreserve
       DEF update_rag_eval_configuration_srvc, delete_rag_eval_configuration_srvc
  <2>3. CASE \/ create_rag_eval_configuration(r)
             \/ update_rag_eval_configuration(r)
             \/ delete_rag_eval_configuration(r)
    BY <2>3, RepositoriesPreserve
       DEF create_rag_eval_configuration, update_rag_eval_configuration,
           delete_rag_eval_configuration
  <2>4. QED
    BY <1>8, <2>1, <2>2, <2>3 DEF rag_eval_route
<1>9. QED
  BY <1>1, <1>2, <1>3, <1>4, <1>5, <1>6, <1>7, <1>8

-----------------------------------------------------------------------------

LEMMA InitEstablishes == Init => IInv
<1> SUFFICES ASSUME Init PROVE IInv
  OBVIOUS
<1>1. TypeOK
  <2>1. NoItem \in Rows
    BY DEF NoItem, Rows, Owners, Contents, Strategies
  <2>2. NoAccount \in Accounts
    BY DEF NoAccount, Accounts, Owners
  <2>3. [NoAccount EXCEPT !.row = "kept", !.roles = {"admin"}] \in Accounts
    BY DEF NoAccount, Accounts, Owners, Roles
  <2>4. QED
    BY <2>1, <2>2, <2>3, CatalogueAssumption DEF Init, TypeOK
<1>2. RequestsInv
  BY IdleAsksNothing DEF Init, RequestsInv
<1>3. \A c \in Children : Honoured(c)
  BY DEF Init, Honoured, NoChild
<1>4. ProfilesStayConsistent
  BY DEF Init, ProfilesStayConsistent, Kept, NoItem
<1>5. EveryAccountHasARole
  BY DEF Init, EveryAccountHasARole, HasAccount, NoAccount
<1>6. QED
  BY <1>1, <1>2, <1>3, <1>4, <1>5 DEF IInv

LEMMA NextPreserves == IInv /\ [Next]_vars => IInv'
<1> SUFFICES ASSUME IInv, [Next]_vars PROVE IInv'
  OBVIOUS
<1>1. ASSUME NEW r \in Slots,
             \/ scenarios_route(r)         \/ counterpart_personas_route(r)
             \/ rag_profiles_route(r)      \/ prompts_route(r)
             \/ chunking_profiles_route(r) \/ vector_stores_route(r)
             \/ sessions_route(r)          \/ rag_eval_route(r)
      PROVE  IInv'
  BY <1>1, RoutesPreserve
<1>2. ASSUME NEW r \in Slots, users_route(r)
      PROVE  IInv'
  BY <1>2, AccountServicesPreserve, AccountChecksPreserve,
     CreateUserPreserves, ReplaceRolesPreserves, DeleteUserPreserves
     DEF users_route
<1>3. ASSUME NEW r \in Slots,
             \/ ensure_name_available(r)
             \/ ensure_may_update(r)
             \/ ensure_may_delete(r)
      PROVE  IInv'
  BY <1>3, ItemChecksPreserve
<1>4. ASSUME NEW c \in Children,
             read_reference(c) \/ insert_reference(c) \/ delete_reference(c)
      PROVE  IInv'
  BY <1>4, ReferenceStepsPreserve
<1>5. CASE UNCHANGED vars
  <2>1. TypeOK'
    BY <1>5 DEF IInv, TypeOK, vars
  <2>2. RequestsInv'
    BY <1>5, RequestsInvKept DEF IInv, vars, ReferencesGrowSafely
  <2>3. QED
    BY <1>5, <2>1, <2>2, FitsIsFixed
       DEF IInv, vars, Honoured, Kept, ProfilesStayConsistent,
           EveryAccountHasARole, HasAccount
<1>6. QED
  BY <1>1, <1>2, <1>3, <1>4, <1>5 DEF Next

LEMMA Invariance == Spec => []IInv
<1>1. QED
  BY InitEstablishes, NextPreserves, PTL DEF Spec

-----------------------------------------------------------------------------

(* Every account, row, reference and request has the columns of its kind,  *)
(* whatever mix of requests is in flight.                                  *)
THEOREM CatalogueTypesHold == Spec => []TypeOK
<1>1. IInv => TypeOK
  BY DEF IInv
<1>2. QED
  BY <1>1, Invariance, PTL

(* However checks, commits and insertions of references interleave, a      *)
(* reference that was not inserted inside the window of a check keeps its  *)
(* row, and of the protected kinds what the row says.                      *)
THEOREM UnracedReferencesAreHonoured == Spec => []ReferencesAreHonoured
<1>1. IInv => ReferencesAreHonoured
  BY DEF IInv, ReferencesAreHonoured, Honoured
<1>2. QED
  BY <1>1, Invariance, PTL

(* Updates that are validated against the copy they loaded keep every      *)
(* configuration valid, but for those written over a newer version.        *)
THEOREM ConfigurationsStayValid == Spec => []ProfilesStayConsistent
<1>1. IInv => ProfilesStayConsistent
  BY DEF IInv
<1>2. QED
  BY <1>1, Invariance, PTL

(* No sequence of registrations and replacements leaves an account without *)
(* a role, but for replacements that overlap.                              *)
THEOREM AccountsKeepARole == Spec => []EveryAccountHasARole
<1>1. IInv => EveryAccountHasARole
  BY DEF IInv
<1>2. QED
  BY <1>1, Invariance, PTL
=============================================================================

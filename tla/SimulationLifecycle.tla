------------------------- MODULE SimulationLifecycle -------------------------
(***************************************************************************)
(* The row of one simulation and the requests that work on it.  A request  *)
(* loads the row into its session, checks the copy, awaits whatever it     *)
(* needs (models, prompts, retrieval), and commits: the columns that       *)
(* differ from the copy are written by primary key, the others are left    *)
(* as they are.  Nothing compares the copy with what is stored by then.    *)
(* The evidence of a turn is inserted after the commit of the turn.        *)
(***************************************************************************)
EXTENDS Naturals, FiniteSets

CONSTANTS
    Slots,         \* requests in flight at once
    Teachers,      \* who review, as administrators may
    NoTeacher,     \* NULL in teacher_id and teacher_feedback
    MaxRequests,   \* requests in all
    MaxFaults      \* errors of the database, or crashes, that end a request

ASSUME SlotsAssumption == IsFiniteSet(Slots)
ASSUME BoundsAssumption == MaxRequests \in Nat /\ MaxFaults \in Nat

VARIABLES
    row,          \* the Simulation row
    ledgers,      \* turns with rows in SimulationEvidenceLedger
    request,      \* slot -> the request in it
    received,     \* requests so far
    faults,
    turns_taken,  \* history: turns whose commit succeeded
    stale         \* history: the kinds of requests that wrote over a newer row

vars == <<row, ledgers, request, received, faults, turns_taken, stale>>

TERMINAL_STATUSES == {"completed", "cancelled", "failed"}
RUNNABLE_STATUSES == {"active", "paused"}
Statuses          == {"created"} \cup RUNNABLE_STATUSES \cup TERMINAL_STATUSES

Turns == 1..MaxRequests
Student == "student"    \* the owner, or the participant
Admin   == "admin"
Users   == Teachers \cup {Student, Admin}

ASSUME TeachersAssumption == NoTeacher \notin Users

TurnKinds   == {"turn", "proxy_turn"}
ReviewKinds == {"review", "update_review", "delete_review"}
ByHandKinds == {"cancel", "delete", "update"}
ProxyKinds  == {"disable_proxy"}
Kinds == TurnKinds \cup ReviewKinds \cup ByHandKinds \cup ProxyKinds \cup {"start"}

(* A provider and a model: the ones named, or those there are by default. *)
LlmSelections == {"default", "named"}

normalize_llm_selection(named) == IF named THEN "named" ELSE "default"

(* What the properties tell apart in negotiation_state. *)
NegotiationStates ==
    [turns : SUBSET Turns,                             \* data.messages
     stage : {"new", "seeded", "open", "ended"},       \* data and data.phase
     learner_config : BOOLEAN,                         \* whether it says enabled
     llm_selection : LlmSelections \cup {"none"},      \* of counterpart and evaluator
     proxy_selection : LlmSelections \cup {"none"},    \* of the proxy, beside them
     auto_user_proxy_enabled : BOOLEAN,
     user_proxy_persona : BOOLEAN]                     \* whether there is one

Rows ==
    [exists : BOOLEAN,
     status : Statuses,
     negotiation_state : NegotiationStates,
     messages : SUBSET Turns,
     teacher_reviewed : BOOLEAN,
     teacher_id : Users \cup {NoTeacher},
     teacher_feedback : Users \cup {NoTeacher}]      \* by whom it was written

(* A simulation is created with the learner or without.  Until it starts,  *)
(* nothing else is in its state: what is missing reads as it does here.    *)
_learner_config_from_create_request(use_learner_agent) ==
    [turns |-> {}, stage |-> "new", learner_config |-> use_learner_agent,
     llm_selection |-> "none", proxy_selection |-> "none",
     auto_user_proxy_enabled |-> FALSE, user_proxy_persona |-> FALSE]

NewSimulation(use_learner_agent) ==
    [exists |-> TRUE, status |-> "created",
     negotiation_state |-> _learner_config_from_create_request(use_learner_agent),
     messages |-> {},
     teacher_reviewed |-> FALSE, teacher_id |-> NoTeacher,
     teacher_feedback |-> NoTeacher]

Requests ==
    [kind : Kinds, user : Users \cup {NoTeacher}, pc : {"loaded", "ledgers"},
     copy : Rows, turn : Turns \cup {0}]

Idle == [pc |-> "idle"]

TypeOK ==
    /\ row \in Rows
    /\ ledgers \subseteq Turns
    /\ request \in [Slots -> Requests \cup {Idle}]
    /\ received \in 0..MaxRequests
    /\ faults \in 0..MaxFaults
    /\ turns_taken \in 0..MaxRequests
    /\ stale \subseteq Kinds

Init ==
    /\ \E use_learner_agent \in BOOLEAN : row = NewSimulation(use_learner_agent)
    /\ ledgers = {}
    /\ request = [r \in Slots |-> Idle]
    /\ received = 0
    /\ faults = 0
    /\ turns_taken = 0
    /\ stale = {}

-----------------------------------------------------------------------------
(* Requests.  Who asks is checked against the row that is loaded, and so is *)
(* what is asked.                                                          *)

_has_role(user, role) ==
    CASE role = "admin"   -> user = Admin
      [] role = "teacher" -> user \in Teachers

get_accessible_simulation(user) ==
    user = Student \/ user = row.teacher_id \/ _has_role(user, "admin")

get_teacher_review_simulation(user) ==
    /\ _has_role(user, "teacher") \/ _has_role(user, "admin")
    /\ row.status = "completed"

(* Fault: a completed simulation may be taken up again. *)
CompletedMayResume(current_status) ==
    CASE current_status = "created"         -> {"active", "cancelled"}
      [] current_status = "active"          -> {"paused", "completed", "cancelled", "failed"}
      [] current_status = "paused"          -> {"active", "completed", "cancelled", "failed"}
      [] current_status \in TERMINAL_STATUSES -> {"active"}

ALLOWED_STATUS_TRANSITIONS(current_status) ==
    CASE current_status = "created"         -> {"active", "cancelled"}
      [] current_status = "active"          -> {"paused", "completed", "cancelled", "failed"}
      [] current_status = "paused"          -> {"active", "completed", "cancelled", "failed"}
      [] current_status \in TERMINAL_STATUSES -> {}

MayEditReview(user) == _has_role(user, "admin") \/ user = row.teacher_id

Accepts(kind) ==
    \/ kind = "start" /\ row.status = "created"
    \/ /\ kind \in TurnKinds
       /\ row.status \in RUNNABLE_STATUSES
       /\ row.negotiation_state.stage # "ended"
    \/ kind = "disable_proxy" /\ row.status \in RUNNABLE_STATUSES
    \/ kind \in {"cancel", "delete"} /\ row.status \notin TERMINAL_STATUSES
    \/ kind = "update" /\ ALLOWED_STATUS_TRANSITIONS(row.status) # {}

AcceptsReview(kind, user) ==
    /\ row.status = "completed"
    /\ IF kind = "review" THEN ~row.teacher_reviewed
       ELSE row.teacher_reviewed /\ row.teacher_id # NoTeacher /\ MayEditReview(user)

get_simulation(r) ==
    /\ request[r] = Idle
    /\ received < MaxRequests
    /\ row.exists
    /\ \E kind \in Kinds, user \in Users :
          /\ IF kind \in ReviewKinds
             THEN get_teacher_review_simulation(user) /\ AcceptsReview(kind, user)
             ELSE get_accessible_simulation(user) /\ Accepts(kind)
          /\ request' = [request EXCEPT ![r] =
                 [kind |-> kind, user |-> IF kind \in ReviewKinds THEN user ELSE NoTeacher,
                  pc |-> "loaded", copy |-> row, turn |-> 0]]
    /\ received' = received + 1
    /\ UNCHANGED <<row, ledgers, faults, turns_taken, stale>>

-----------------------------------------------------------------------------
(* Its commit writes the columns it has changed; nothing is there to write *)
(* to when the row is gone, and the request fails.                         *)

Loaded(r, kind) == request[r] # Idle /\ request[r].pc = "loaded" /\ request[r].kind = kind

Flushed(copy, new) ==
    [column \in DOMAIN row |->
        IF new[column] # copy[column] THEN new[column] ELSE row[column]]

NotesStale(r) ==
    stale' = IF request[r].copy = row THEN stale ELSE stale \cup {request[r].kind}

Responds(r) == request' = [request EXCEPT ![r] = Idle]

commit_and_refresh(r, new) ==
    /\ row.exists
    /\ row' = Flushed(request[r].copy, new)
    /\ NotesStale(r)

Replies(r, new) ==
    /\ commit_and_refresh(r, new)
    /\ Responds(r)
    /\ UNCHANGED <<ledgers, received, faults, turns_taken>>

(* One model for the counterpart, one for the evaluator. *)
_llm_selection_from_start_data(named) == normalize_llm_selection(named)

(* The learner's settings are taken from the state there was, the models   *)
(* of counterpart and evaluator from the request.                          *)
_initial_graph_state(state, llm_selection) ==
    [_learner_config_from_create_request(state.learner_config) EXCEPT
        !.stage = "open", !.llm_selection = llm_selection]

start_simulation(r) ==
    LET copy == request[r].copy
    IN  /\ Loaded(r, "start")
        /\ \E named \in BOOLEAN :
              Replies(r, [copy EXCEPT
                  !.status = "active",
                  !.negotiation_state = _initial_graph_state(copy.negotiation_state,
                                            _llm_selection_from_start_data(named)),
                  !.messages = {}])

_clear_proxy_state(state) ==
    [state EXCEPT !.auto_user_proxy_enabled = FALSE, !.user_proxy_persona = FALSE]

_set_proxy_state(state, enabled, persona) ==
    [state EXCEPT !.auto_user_proxy_enabled = enabled, !.user_proxy_persona = persona]

_persist_proxy_llm_selection(state, selection) == [state EXCEPT !.proxy_selection = selection]

(* The model the request names, or the one a proxy for the remainder had.  *)
_proxy_llm_selection_for_turn(state, remainder, named) ==
    IF ~named /\ remainder /\ state.proxy_selection # "none"
    THEN state.proxy_selection ELSE normalize_llm_selection(named)

(* A proxy answers for this turn, or for the remainder and is kept.        *)
ProxyState(state, remainder, persona, named) ==
    LET set == _set_proxy_state(state, remainder, persona)
    IN  IF remainder
        THEN _persist_proxy_llm_selection(
                 set, _proxy_llm_selection_for_turn(state, remainder, named))
        ELSE set

(* The graph returns the keys of its own state: no settings are among them. *)
NegotiationGraphState(state, stage) ==
    [_clear_proxy_state(state) EXCEPT
        !.stage = stage, !.turns = @ \cup {turns_taken + 1}, !.learner_config = FALSE,
        !.llm_selection = "none", !.proxy_selection = "none"]

(* Fault: the proxy stays, and the model it was given does not. *)
CarriesThePersonaOnly(source, target) ==
    IF source.auto_user_proxy_enabled
    THEN _set_proxy_state(target, TRUE, source.user_proxy_persona)
    ELSE target

_carry_forward_proxy_state(source, target) ==
    IF source.auto_user_proxy_enabled
    THEN _persist_proxy_llm_selection(
             _set_proxy_state(target, TRUE, source.user_proxy_persona),
             source.proxy_selection)
    ELSE target

(* Fault: the turn that ends the negotiation pauses the simulation. *)
PausesAlways(stage) == "paused"

_status_after_graph(stage) == IF stage = "ended" THEN "completed" ELSE "paused"

(* Fault: the messages of the turn replace those before it. *)
OnlyItsMessages(r, state) ==
    [request[r].copy EXCEPT
        !.status = _status_after_graph(state.stage),
        !.negotiation_state = [state EXCEPT !.turns = {turns_taken + 1}],
        !.messages = {turns_taken + 1}]

AfterTurn(r, state) ==
    [request[r].copy EXCEPT
        !.status = _status_after_graph(state.stage),
        !.negotiation_state = state,
        !.messages = state.turns]

TakesTurn(r, state) ==
    /\ commit_and_refresh(r, AfterTurn(r, state))
    /\ turns_taken' = turns_taken + 1
    /\ request' = [request EXCEPT ![r].pc = "ledgers", ![r].turn = turns_taken + 1]
    /\ UNCHANGED <<ledgers, received, faults>>

(* The graph pauses for the user, or ends the negotiation. *)
submit_simulation_turn(r) ==
    /\ Loaded(r, "turn")
    /\ \E stage \in {"open", "ended"} :
          LET state == _clear_proxy_state(request[r].copy.negotiation_state)
          IN  TakesTurn(r, NegotiationGraphState(state, stage))

submit_simulation_proxy_turn(r) ==
    /\ Loaded(r, "proxy_turn")
    /\ \E stage \in {"open", "ended"}, remainder, persona, named \in BOOLEAN :
          LET state == ProxyState(request[r].copy.negotiation_state, remainder, persona, named)
          IN  TakesTurn(r, _carry_forward_proxy_state(state, NegotiationGraphState(state, stage)))

(* Fault: the evidence of proxy turns is not kept. *)
KeepsOwnTurnsOnly(r) ==
    IF request[r].kind = "turn" THEN ledgers \cup {request[r].turn} ELSE ledgers

create_evidence_ledger(r) == ledgers \cup {request[r].turn}

(* The foreign key needs the row. *)
_persist_evidence_ledgers(r) ==
    /\ request[r] # Idle /\ request[r].pc = "ledgers"
    /\ row.exists
    /\ ledgers' = create_evidence_ledger(r)
    /\ Responds(r)
    /\ UNCHANGED <<row, received, faults, turns_taken, stale>>

(* What a state lacks that no start has seeded. *)
_graph_state_from_simulation(state) ==
    [state EXCEPT !.stage = IF @ = "new" THEN "seeded" ELSE @]

(* The status is not written.  The state is, as a whole, when the proxy was *)
(* on, and also when another user asks than the last time.                 *)
disable_simulation_proxy(r) ==
    LET copy == request[r].copy
        new  == [copy EXCEPT
                    !.negotiation_state = _clear_proxy_state(_graph_state_from_simulation(@)),
                    !.messages = copy.negotiation_state.turns]
    IN  /\ Loaded(r, "disable_proxy")
        /\ \/ Replies(r, new)
           \/ /\ row.exists
              /\ row' = [Flushed(copy, new) EXCEPT !.negotiation_state = new.negotiation_state]
              /\ NotesStale(r)
              /\ Responds(r)
              /\ UNCHANGED <<ledgers, received, faults, turns_taken>>

cancel_simulation(r) ==
    /\ Loaded(r, "cancel")
    /\ Replies(r, [request[r].copy EXCEPT !.status = "cancelled"])

(* A created simulation is deleted, unless evidence refers to it by now;   *)
(* another is cancelled.                                                   *)
delete_simulation(r) ==
    /\ Loaded(r, "delete")
    /\ IF request[r].copy.status # "created"
       THEN Replies(r, [request[r].copy EXCEPT !.status = "cancelled"])
       ELSE /\ row.exists /\ ledgers = {}
            /\ row' = [row EXCEPT !.exists = FALSE]
            /\ NotesStale(r)
            /\ Responds(r)
            /\ UNCHANGED <<ledgers, received, faults, turns_taken>>

(* Any status that the table allows may be set by hand. *)
update_simulation(r) ==
    /\ Loaded(r, "update")
    /\ \E status \in ALLOWED_STATUS_TRANSITIONS(request[r].copy.status) :
          Replies(r, [request[r].copy EXCEPT !.status = status])

WithReview(copy, user) ==
    [copy EXCEPT !.teacher_id = user, !.teacher_feedback = user,
                 !.teacher_reviewed = TRUE]

review_simulation(r) ==
    /\ Loaded(r, "review")
    /\ Replies(r, WithReview(request[r].copy, request[r].user))

(* An administrator may be the author of the feedback alone. *)
WithFeedback(copy, user) == [copy EXCEPT !.teacher_feedback = user]

update_review_simulation(r) ==
    /\ Loaded(r, "update_review")
    /\ Replies(r, WithFeedback(request[r].copy, request[r].user))

(* Fault: the feedback survives its review. *)
KeepsFeedback(copy) ==
    [copy EXCEPT !.teacher_id = NoTeacher, !.teacher_reviewed = FALSE]

WithoutReview(copy) ==
    [copy EXCEPT !.teacher_id = NoTeacher, !.teacher_feedback = NoTeacher,
                 !.teacher_reviewed = FALSE]

delete_review_simulation(r) ==
    /\ Loaded(r, "delete_review")
    /\ Replies(r, WithoutReview(request[r].copy))

(* Before its commit a request may give up: what the simulation refers to  *)
(* is gone, the answer of the proxy is empty, a model raises, or the row    *)
(* is gone itself.                                                          *)
GivesUp(r) ==
    /\ request[r] # Idle /\ request[r].pc = "loaded"
    /\ Responds(r)
    /\ UNCHANGED <<row, ledgers, received, faults, turns_taken, stale>>

(* After it only an error, a crash or a deleted row keeps the evidence away. *)
LosesEvidence(r) ==
    /\ request[r] # Idle /\ request[r].pc = "ledgers"
    /\ IF row.exists THEN faults < MaxFaults /\ faults' = faults + 1 ELSE UNCHANGED faults
    /\ Responds(r)
    /\ UNCHANGED <<row, ledgers, received, turns_taken, stale>>

Next ==
    \E r \in Slots :
       \/ get_simulation(r)
       \/ start_simulation(r)
       \/ submit_simulation_turn(r)
       \/ submit_simulation_proxy_turn(r)
       \/ _persist_evidence_ledgers(r)
       \/ disable_simulation_proxy(r)
       \/ cancel_simulation(r)
       \/ delete_simulation(r)
       \/ update_simulation(r)
       \/ review_simulation(r)
       \/ update_review_simulation(r)
       \/ delete_review_simulation(r)
       \/ GivesUp(r)
       \/ LosesEvidence(r)

Spec == Init /\ [][Next]_vars

-----------------------------------------------------------------------------
(* Properties.  Where one speaks of stale requests, it names the kinds     *)
(* whose stale write is known to break it: no other kind may.              *)

StaleWriters(kinds) == stale \cap kinds # {}

StateKinds == TurnKinds \cup {"start", "disable_proxy"}

EvidenceIsComing(t) ==
    \E r \in Slots :
        request[r] # Idle /\ request[r].pc = "ledgers" /\ request[r].turn = t

(* Unless a request wrote an older negotiation state back, every turn that *)
(* was taken is in the negotiation state and in the messages; without      *)
(* errors it has its evidence or the request that will insert it, however  *)
(* the requests overlap.  Unless a status set by hand overwrote a newer    *)
(* row, a negotiation that has ended is a completed simulation.            *)
TurnsAreKept ==
    /\ row.negotiation_state.stage = "ended" /\ ~StaleWriters(ByHandKinds) =>
          row.status = "completed"
    /\ ~StaleWriters(StateKinds) =>
          /\ row.negotiation_state.turns = 1..turns_taken
          /\ row.messages = 1..turns_taken
    /\ row.exists /\ faults = 0 =>
          \A t \in 1..turns_taken : t \in ledgers \/ EvidenceIsComing(t)

(* A proxy that answers for the remainder of the negotiation keeps the     *)
(* model it was given, though the graph returns none of its settings, and  *)
(* one that was switched off leaves no persona, however requests overlap.  *)
ProxiesKeepTheirModel ==
    LET state == row.negotiation_state
    IN  IF state.auto_user_proxy_enabled
        THEN state.proxy_selection # "none" ELSE ~state.user_proxy_persona

(* Unless a review request wrote over a newer row, a review has an author  *)
(* and a feedback that its author or an administrator wrote, and without a *)
(* review there is neither; unless another request did, what is reviewed   *)
(* is a completed simulation.                                              *)
ReviewsAreWhole ==
    /\ ~StaleWriters(ReviewKinds) =>
          /\ row.teacher_reviewed <=> row.teacher_id # NoTeacher
          /\ row.teacher_reviewed <=> row.teacher_feedback # NoTeacher
          /\ row.teacher_reviewed => row.teacher_feedback \in {row.teacher_id, Admin}
    /\ ~StaleWriters(Kinds \ ReviewKinds) =>
          (row.teacher_reviewed => row.status = "completed")

(* Requests that do not overlap leave a completed, cancelled or failed     *)
(* simulation and its transcript as they are, and keep it.                 *)
EndedSimulationsAreFrozen ==
    [][row.status \in TERMINAL_STATUSES /\ stale' = {} =>
          /\ row'.exists = row.exists
          /\ row'.status = row.status
          /\ row'.negotiation_state = row.negotiation_state
          /\ row'.messages = row.messages]_vars

(* Read back, no selection is the default one. *)
_llm_selection_from_simulation(state) ==
    IF state.llm_selection = "none" THEN "default" ELSE state.llm_selection

(* "It [...] can answer learner-facing questions during a simulation"       *)
(* (openwiki/domains/simulations.md): while a simulation runs, what it was  *)
(* created and started with stays: the learner and the selected models.     *)
SettingsAreKept ==
    [][row.status \in RUNNABLE_STATUSES /\ row'.status \in RUNNABLE_STATUSES =>
          LET old == row.negotiation_state
              new == row'.negotiation_state
          IN  /\ new.learner_config = old.learner_config
              /\ _llm_selection_from_simulation(new) = _llm_selection_from_simulation(old)]_vars

=============================================================================

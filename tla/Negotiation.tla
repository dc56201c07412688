----------------------------- MODULE Negotiation -----------------------------
(***************************************************************************)
(* The turns of one negotiation.  The service loads the stored state, has  *)
(* the user proxy write the message or takes the student's, and invokes    *)
(* the parent graph, whose nodes run the agents one after the other; each  *)
(* agent works on a projection of the state and is a graph of its own,     *)
(* with a repair and a fallback behind every model call, and the coach and *)
(* the evaluator call the CRAG graph first.  The result is stored once,    *)
(* after the graph has ended.  Requests that overlap are the subject of    *)
(* SimulationLifecycle: the graph itself runs without giving way to any.   *)
(* The simulation is one that was created with the learner.                *)
(***************************************************************************)
EXTENDS Learner

CONSTANT MaxTurns    \* max_turn_count

ASSUME MaxTurnsAssumption == MaxTurns \in Nat \ {0}

VARIABLES
    simulation,     \* the stored row: status, negotiation_state, learner_config
    negotiation,    \* the state of the parent graph
    node,           \* the node of the parent graph, or of the service around it
    agent,          \* the state of the agent that runs
    turns           \* history: turns that were stored

vars == <<crag, calls, learner, simulation, negotiation, node, agent, turns>>

TurnNumbers == 0..MaxTurns + 1    \* 0: never

(* The ledgers the graph keeps; the user proxy's does not come back.       *)
LedgerAgents == {"intent_classifier", "counterpart", "coach", "evaluator"}
Agents       == LedgerAgents \cup {"user_proxy"}

NegotiationGraphState ==
    [phase : {"opening", "ended"},
     turn_count : 0..MaxTurns,
     requested_action : {"none", "continue", "end"},
     acceptance : BOOLEAN,                            \* what the last message says
     intent_classification : {"none", "continue", "unsure_end", "end"},    \* "end": high confidence
     evaluation_mode : {"none", "rolling", "final"},
     terminal_reason : {"none", "turn_limit", "student_request", "classified_intent"},
     should_pause : BOOLEAN,
     response : TurnNumbers,                          \* the turn that wrote it
     evaluation : TurnNumbers,
     final_evaluation : TurnNumbers,
     coach_advice : TurnNumbers,
     evidence_ledger : [Agents -> SUBSET TurnNumbers]]    \* turns with steps in it

NewNegotiation ==
    [phase |-> "opening", turn_count |-> 0, requested_action |-> "none",
     acceptance |-> FALSE, intent_classification |-> "none", evaluation_mode |-> "none",
     terminal_reason |-> "none", should_pause |-> FALSE, response |-> 0,
     evaluation |-> 0, final_evaluation |-> 0, coach_advice |-> 0,
     evidence_ledger |-> [a \in Agents |-> {}]]

AgentOf ==
    [user_proxy |-> "user_proxy", classify_intent |-> "intent_classifier",
     call_counterpart |-> "counterpart", rolling_evaluator |-> "evaluator",
     coach |-> "coach", final_evaluator |-> "evaluator"]

AgentNodes == DOMAIN AgentOf
Nodes ==
    AgentNodes \cup
    {"idle", "prepare_context", "complete_counterpart_turn", "pause_for_user",
     "prepare_final_evaluation", "finalize", "store"}

AgentStates ==
    [name : Agents,
     node : {"call_rag", "await_rag", "generate", "repair", "fallback", "finalize"},
     retry_count : 0..1,
     response : {"none", "model", "fallback"},
     evidence_ledger : [Agents -> SUBSET TurnNumbers]]

NoAgent == [name |-> "none"]

TypeOK ==
    /\ CragTypeOK
    /\ learner \in LearnerStates
    /\ simulation \in [status : {"active", "paused", "completed"},
                       negotiation_state : NegotiationGraphState,
                       learner_config : BOOLEAN]    \* whether it says enabled
    /\ negotiation \in NegotiationGraphState
    /\ node \in Nodes
    /\ IF node \in AgentNodes
       THEN agent \in AgentStates /\ agent.name = AgentOf[node]
       ELSE agent = NoAgent
    /\ turns \in TurnNumbers

Init ==
    /\ crag = NotRunning
    /\ calls = 0
    /\ learner = NoQuestion
    /\ simulation = [status |-> "active", negotiation_state |-> NewNegotiation,
                     learner_config |-> TRUE]
    /\ negotiation = NewNegotiation
    /\ node = "idle"
    /\ agent = NoAgent
    /\ turns = 0

-----------------------------------------------------------------------------
(* Agents. *)

ThisTurn == turns + 1

(* Fault: the projection leaves the ledger out. *)
ProjectsNothing(state) == [a \in Agents |-> {}]

Projected(state) == state.evidence_ledger

Started(name, state) ==
    [name |-> name,
     node |-> IF name \in {"coach", "evaluator"} THEN "call_rag" ELSE "generate",
     retry_count |-> 0, response |-> "none",
     evidence_ledger |-> Projected(state)]

update_agent_ledger == [agent.evidence_ledger EXCEPT ![agent.name] = @ \cup {ThisTurn}]

At(agent_node) == node \in AgentNodes /\ agent.node = agent_node

OnlyTheAgentMoves == UNCHANGED <<learner, simulation, negotiation, node, turns>>

(* The trusted context is never empty: it names the side of the student. *)
CallRag ==
    /\ At("call_rag")
    /\ \E question \in Queries \ {"blank"} : crag' = Invoked(question, TRUE)
    /\ agent' = [agent EXCEPT !.node = "await_rag"]
    /\ UNCHANGED calls /\ OnlyTheAgentMoves

RunCrag ==
    /\ At("await_rag")
    /\ CragNext
    /\ UNCHANGED agent /\ OnlyTheAgentMoves

RagReturns == crag.node \in {"end", "raised"}

(* An answer, or what it raised, is noted and the agent goes on. *)
node_call_rag ==
    /\ At("await_rag")
    /\ RagReturns
    /\ crag' = NotRunning
    /\ agent' = [agent EXCEPT !.node = "generate", !.evidence_ledger = update_agent_ledger]
    /\ UNCHANGED calls /\ OnlyTheAgentMoves

(* Without a RAG graph the step is noted as skipped. *)
SkipRag ==
    /\ At("call_rag")
    /\ agent' = [agent EXCEPT !.node = "generate", !.evidence_ledger = update_agent_ledger]
    /\ UNCHANGED <<crag, calls>> /\ OnlyTheAgentMoves

coach_call_rag == agent.name = "coach" /\ (CallRag \/ SkipRag \/ node_call_rag)

evaluator_call_rag == agent.name = "evaluator" /\ (CallRag \/ SkipRag \/ node_call_rag)

decide_after_generate(response) ==
    IF response # "none" THEN "finalize"
    ELSE IF agent.retry_count < 1 THEN "repair" ELSE "fallback"

decide_after_repair(response) == IF response # "none" THEN "finalize" ELSE "fallback"

Answered(response) ==
    [agent EXCEPT !.response = response, !.evidence_ledger = update_agent_ledger]

(* A model that is not configured answers as one that raises does, and so  *)
(* does one whose answer does not validate.                                *)
Generates(name, Router(_)) ==
    /\ At("generate") /\ agent.name = name
    /\ \E response \in {"none", "model"} :
          agent' = [Answered(response) EXCEPT !.node = Router(response)]
    /\ CallsModel
    /\ UNCHANGED crag /\ OnlyTheAgentMoves

Repairs(name) ==
    /\ At("repair") /\ agent.name = name
    /\ \E response \in {"none", "model"} :
          agent' = [Answered(response) EXCEPT !.node = decide_after_repair(response),
                                              !.retry_count = @ + 1]
    /\ CallsModel
    /\ UNCHANGED crag /\ OnlyTheAgentMoves

FallsBack(name) ==
    /\ At("fallback") /\ agent.name = name
    /\ agent' = [Answered("fallback") EXCEPT !.node = "finalize"]
    /\ UNCHANGED <<crag, calls>> /\ OnlyTheAgentMoves

node_generate_user_proxy_response  == Generates("user_proxy", decide_after_generate)
node_repair_user_proxy_response    == Repairs("user_proxy")
node_fallback_user_proxy_response  == FallsBack("user_proxy")

node_generate_counterpart_response == Generates("counterpart", decide_after_generate)
node_repair_counterpart_response   == Repairs("counterpart")
node_fallback_counterpart_response == FallsBack("counterpart")

node_generate_coach_advice         == Generates("coach", decide_after_generate)
node_repair_coach_advice           == Repairs("coach")
node_fallback_coach_advice         == FallsBack("coach")

node_generate_evaluator_response   == Generates("evaluator", decide_after_generate)
node_repair_evaluator_response     == Repairs("evaluator")
node_fallback_evaluator_response   == FallsBack("evaluator")

(* The classifier is not repaired: what is missing is made up at the end. *)
node_classify_intent ==
    LET finalize_intent(response) == "finalize"
    IN  Generates("intent_classifier", finalize_intent)

AgentNext ==
    \/ coach_call_rag \/ evaluator_call_rag \/ RunCrag
    \/ node_generate_user_proxy_response  \/ node_repair_user_proxy_response
    \/ node_fallback_user_proxy_response
    \/ node_generate_counterpart_response \/ node_repair_counterpart_response
    \/ node_fallback_counterpart_response
    \/ node_generate_coach_advice         \/ node_repair_coach_advice
    \/ node_fallback_coach_advice
    \/ node_generate_evaluator_response   \/ node_repair_evaluator_response
    \/ node_fallback_evaluator_response
    \/ node_classify_intent

Finalizes(n) == node = n /\ agent.node = "finalize"

-----------------------------------------------------------------------------
(* Requests.  A message that accepts the deal ends the negotiation at once *)
(* when the student wrote it without an action; one that the proxy wrote   *)
(* goes through the classifier.                                            *)

Accepts ==
    /\ node = "idle" /\ learner.node = "idle"
    /\ simulation.status \in {"active", "paused"}
    /\ simulation.negotiation_state.phase # "ended"

NothingIsStored == UNCHANGED <<agent, node, negotiation, simulation, turns>>

(* A question is asked about what is stored and changes none of it.        *)
ask_simulation_learner_srvc ==
    /\ Accepts
    /\ simulation.learner_config
    /\ ask_simulation_learner
    /\ NothingIsStored

AnswerQuestion == LearnerNext /\ NothingIsStored

submit_simulation_turn ==
    /\ Accepts
    /\ \E action \in {"none", "continue", "end"}, acceptance \in BOOLEAN :
          negotiation' = [simulation.negotiation_state EXCEPT
              !.requested_action = IF action = "none" /\ acceptance THEN "end" ELSE action,
              !.acceptance = acceptance]
    /\ calls' = 0
    /\ node' = "prepare_context"
    /\ UNCHANGED <<crag, learner, agent, simulation, turns>>

submit_simulation_proxy_turn ==
    /\ Accepts
    /\ negotiation' = simulation.negotiation_state
    /\ calls' = 0
    /\ node' = "user_proxy"
    /\ agent' = Started("user_proxy", simulation.negotiation_state)
    /\ UNCHANGED <<crag, learner, simulation, turns>>

(* Only the message comes back from the proxy. *)
invoke_user_proxy_turn ==
    /\ Finalizes("user_proxy")
    /\ \E acceptance \in BOOLEAN :
          negotiation' = [negotiation EXCEPT !.acceptance = acceptance]
    /\ node' = "prepare_context"
    /\ agent' = NoAgent
    /\ UNCHANGED <<crag, calls, learner, simulation, turns>>

(* A blank one is refused, and the request leaves nothing behind. *)
ProxyResponseWasEmpty ==
    /\ Finalizes("user_proxy")
    /\ agent.response = "model"
    /\ negotiation' = simulation.negotiation_state
    /\ node' = "idle"
    /\ agent' = NoAgent
    /\ UNCHANGED <<crag, calls, learner, simulation, turns>>

-----------------------------------------------------------------------------
(* The parent graph. *)

turn_limit_reached(state) == state.turn_count >= MaxTurns

(* Fault: what the student asked for is read before the limit. *)
RequestFirst(state) ==
    IF state.requested_action = "continue" THEN "call_counterpart"
    ELSE IF turn_limit_reached(state) \/ state.requested_action = "end"
         THEN "prepare_final_evaluation" ELSE "classify_intent"

route_after_prepare(state) ==
    IF turn_limit_reached(state) \/ state.requested_action = "end"
    THEN "prepare_final_evaluation"
    ELSE IF state.requested_action = "continue" THEN "call_counterpart" ELSE "classify_intent"

route_after_intent(state) ==
    IF state.intent_classification = "end" THEN "prepare_final_evaluation" ELSE "call_counterpart"

Goes(n, state) ==
    /\ negotiation' = state
    /\ node' = n
    /\ agent' = IF n \in AgentNodes THEN Started(AgentOf[n], state) ELSE NoAgent
    /\ UNCHANGED <<crag, calls, learner, simulation, turns>>

Prepared ==
    [negotiation EXCEPT !.should_pause = FALSE, !.intent_classification = "none",
                        !.terminal_reason = "none"]

node_prepare_orchestrator_context ==
    /\ node = "prepare_context"
    /\ Goes(route_after_prepare(Prepared), Prepared)

(* What an agent noted in its ledger comes back with its result. *)
Noted == [negotiation EXCEPT !.evidence_ledger = update_agent_ledger]

fallback_intent_classification == "continue"

(* A model that read an acceptance as a wish to go on is overruled; one    *)
(* that is not sure of an end, and the fallback, are not.                  *)
Classifications ==
    IF agent.response = "none" THEN {fallback_intent_classification}
    ELSE IF negotiation.acceptance THEN {"unsure_end", "end"}
         ELSE {"continue", "unsure_end", "end"}

intent_classifier_node ==
    /\ Finalizes("classify_intent")
    /\ \E intent \in Classifications :
          LET state == [Noted EXCEPT !.intent_classification = intent]
          IN  Goes(route_after_intent(state), state)

counterpart_node ==
    /\ Finalizes("call_counterpart")
    /\ Goes("complete_counterpart_turn", [Noted EXCEPT !.response = ThisTurn])

node_complete_counterpart_turn ==
    /\ node = "complete_counterpart_turn"
    /\ Goes("rolling_evaluator",
            [negotiation EXCEPT !.turn_count = @ + 1, !.evaluation_mode = "rolling"])

(* One evaluator serves both its nodes and goes by the mode. *)
node_finalize_evaluator(state) ==
    IF state.evaluation_mode = "final"
    THEN [state EXCEPT !.final_evaluation = ThisTurn]
    ELSE [state EXCEPT !.evaluation = ThisTurn]

evaluator_node ==
    \/ /\ Finalizes("rolling_evaluator")
       /\ Goes("coach", node_finalize_evaluator(Noted))
    \/ /\ Finalizes("final_evaluator")
       /\ Goes("finalize", node_finalize_evaluator(Noted))

coach_node ==
    /\ Finalizes("coach")
    /\ Goes("pause_for_user", [Noted EXCEPT !.coach_advice = ThisTurn])

node_pause_for_user ==
    /\ node = "pause_for_user"
    /\ Goes("store", [negotiation EXCEPT !.should_pause = TRUE])

(* Fault: the mode of the last evaluation is left alone. *)
KeepsTheMode(state, reason) ==
    [state EXCEPT !.terminal_reason = reason, !.should_pause = FALSE]

Final(state, reason) ==
    [state EXCEPT !.evaluation_mode = "final", !.terminal_reason = reason,
                  !.should_pause = FALSE]

TerminalReason(state) ==
    IF turn_limit_reached(state) THEN "turn_limit"
    ELSE IF state.requested_action = "end" THEN "student_request" ELSE "classified_intent"

node_prepare_final_evaluation ==
    /\ node = "prepare_final_evaluation"
    /\ Goes("final_evaluator", Final(negotiation, TerminalReason(negotiation)))

node_finalize_negotiation ==
    /\ node = "finalize"
    /\ Goes("store", [negotiation EXCEPT !.phase = "ended", !.should_pause = FALSE])

_status_after_graph(state) ==
    IF state.phase = "ended" THEN "completed"
    ELSE IF state.should_pause THEN "paused" ELSE "active"

(* The graph returns what NegotiationGraphState names, and the service     *)
(* carries over what concerns the proxy only.                              *)
AfterGraph(state) == [status |-> _status_after_graph(state), negotiation_state |-> state,
                      learner_config |-> FALSE]

(* The row is written, or the write fails and nothing of the turn is kept. *)
(* What the last message said is read within its turn only.                *)
update_simulation ==
    /\ node = "store"
    /\ LET state == [negotiation EXCEPT !.requested_action = "none", !.acceptance = FALSE]
       IN  \/ /\ simulation' = AfterGraph(state)
              /\ negotiation' = state
              /\ turns' = ThisTurn
           \/ /\ negotiation' = simulation.negotiation_state
              /\ UNCHANGED <<simulation, turns>>
    /\ node' = "idle"
    /\ calls' = 0
    /\ UNCHANGED <<crag, learner, agent>>

GraphNext ==
    \/ invoke_user_proxy_turn \/ ProxyResponseWasEmpty
    \/ node_prepare_orchestrator_context \/ intent_classifier_node
    \/ counterpart_node \/ node_complete_counterpart_turn
    \/ evaluator_node \/ coach_node \/ node_pause_for_user
    \/ node_prepare_final_evaluation \/ node_finalize_negotiation
    \/ update_simulation

(* The negotiation is over: no turn and no question is accepted any more.  *)
NegotiationOver ==
    /\ node = "idle" /\ learner.node = "idle"
    /\ ~Accepts
    /\ UNCHANGED vars

TurnNext == AgentNext \/ GraphNext

Next ==
    \/ submit_simulation_turn \/ submit_simulation_proxy_turn \/ ask_simulation_learner_srvc
    \/ TurnNext
    \/ AnswerQuestion
    \/ NegotiationOver

Spec == Init /\ [][Next]_vars

-----------------------------------------------------------------------------
(* Properties. *)

TurnCalls == 9 + 2 * CragCalls

(* However a turn goes, with every repair, rewrite and failure it meets, it *)
(* calls a language model a bounded number of times: proxy, counterpart,    *)
(* evaluator and coach twice each, the classifier once, and two runs of the *)
(* CRAG graph.  A question to the learner has a budget of its own, with one *)
(* run of the graph for every tool it may call.                             *)
ModelCallsAreBounded ==
    /\ node # "idle" => calls <= TurnCalls
    /\ learner.node # "idle" => calls <= LearnerCalls
    /\ calls <= TurnCalls \/ calls <= LearnerCalls

Stored == simulation.negotiation_state

(* A stored turn is a whole one: what the agents wrote in it is of the same *)
(* turn.  A paused simulation has the response, evaluation and advice of    *)
(* its last turn and no final evaluation; a completed one has the final     *)
(* evaluation of its last turn, what the round before left, and the reason  *)
(* for which it really ended.                                               *)
TurnsAreWhole ==
    LET round == Stored.turn_count
    IN  /\ Stored.response = round /\ Stored.evaluation = round /\ Stored.coach_advice = round
        /\ simulation.status # "completed" => turns = round /\ Stored.final_evaluation = 0
        /\ simulation.status = "completed" =>
              /\ turns = round + 1 /\ Stored.final_evaluation = turns
              /\ Stored.terminal_reason = "turn_limit" <=> round = MaxTurns
              /\ Stored.terminal_reason = "classified_intent" <=>
                    Stored.intent_classification = "end"

(* The ledger each agent works on starts from the one the graph kept, so    *)
(* the stored ledgers hold the steps of every turn so far and not of the    *)
(* last one only.                                                           *)
LedgersHoldEveryTurn ==
    /\ Stored.evidence_ledger["evaluator"] = 1..turns
    /\ \A a \in {"counterpart", "coach"} : Stored.evidence_ledger[a] = 1..Stored.turn_count
    /\ Stored.evidence_ledger["intent_classifier"] \subseteq 1..turns

Protocol ==
    INSTANCE TurnProtocol WITH status <- simulation.status,
                               turn_count <- simulation.negotiation_state.turn_count

(* Seen from the stored row, a turn is one more round or the end.           *)
ImplementsTurnProtocol == Protocol!ProtocolSpec
=============================================================================

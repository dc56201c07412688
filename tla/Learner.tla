------------------------------- MODULE Learner -------------------------------
(***************************************************************************)
(* The learning agent of a simulation.  A student's question is answered   *)
(* by a model that may call tools in between: the RAG graph of the         *)
(* simulation and a search of the web.  A tool that raises returns a       *)
(* failed result to the model; the model itself, or a limit on either kind *)
(* of call, ends the question with an error.  The tools one message calls  *)
(* share no state and are taken one by one.  The third tool, a summary of  *)
(* the negotiation, is built only when there is something to summarize,    *)
(* and no question is answered once there is (see Negotiation).            *)
(***************************************************************************)
EXTENDS Crag

CONSTANTS
    ModelCallLimit,    \* run_limit of ModelCallLimitMiddleware
    ToolCallLimit      \* run_limit of ToolCallLimitMiddleware

ASSUME LimitsAssumption == ModelCallLimit \in Nat \ {0} /\ ToolCallLimit \in Nat

VARIABLE learner    \* the state of the agent

RetrievalTools == {"crag_tool", "graph_rag_tool"}
Tools          == RetrievalTools \cup {"tavily_search_tool"}

Web == MaxRewrites + 2      \* the pages a search found

LearnerStates ==
    [node : {"idle", "model", "tools", "await_rag", "answered"},
     retrieval_strategy : {"crag", "graphrag"},
     tavily_search : BOOLEAN,            \* a key for the search is configured
     model_calls : 0..ModelCallLimit,
     tool_calls : 0..ToolCallLimit,
     pending : 0..ToolCallLimit,         \* calls of the last message that have no result
     succeeded : SUBSET Tools,           \* tools with a successful result
     sources : SUBSET (1..Web)]          \* collected from the results

NoQuestion ==
    [node |-> "idle", retrieval_strategy |-> "crag", tavily_search |-> FALSE,
     model_calls |-> 0, tool_calls |-> 0, pending |-> 0, succeeded |-> {}, sources |-> {}]

-----------------------------------------------------------------------------
(* A question. *)

RetrievalTool == IF learner.retrieval_strategy = "graphrag" THEN "graph_rag_tool" ELSE "crag_tool"

build_learner_tools ==
    {RetrievalTool} \cup (IF learner.tavily_search THEN {"tavily_search_tool"} ELSE {})

(* The tools the response names are worked out a second time.              *)
_tool_names_for_metadata ==
    {tool \in Tools :
        CASE tool = "crag_tool"      -> learner.retrieval_strategy = "crag"
          [] tool = "graph_rag_tool" -> learner.retrieval_strategy = "graphrag"
          [] tool = "tavily_search_tool" -> learner.tavily_search}

ask_simulation_learner ==
    /\ learner.node = "idle"
    /\ \E retrieval_strategy \in {"crag", "graphrag"}, tavily_search \in BOOLEAN :
          learner' = [NoQuestion EXCEPT !.node = "model", !.tavily_search = tavily_search,
                                        !.retrieval_strategy = retrieval_strategy]
    /\ calls' = 0
    /\ UNCHANGED crag

-----------------------------------------------------------------------------
(* The agent's loop of model and tools. *)

QuestionFails == learner' = NoQuestion

(* Both middlewares raise at their limit; the message with the tool call   *)
(* that is too many has been paid for.                                     *)
CallLearnerModel ==
    /\ learner.node = "model"
    /\ learner.model_calls < ModelCallLimit
    /\ LET called == [learner EXCEPT !.model_calls = @ + 1]
       IN  \/ \E n \in 1..ToolCallLimit :
                 IF learner.tool_calls + n > ToolCallLimit THEN QuestionFails
                 ELSE learner' = [called EXCEPT !.node = "tools", !.pending = n,
                                                !.tool_calls = @ + n]
           \/ learner' = [called EXCEPT !.node = "answered"]
           \/ QuestionFails
    /\ CallsModel
    /\ UNCHANGED crag

ModelLimitExceeded ==
    /\ learner.node = "model"
    /\ learner.model_calls = ModelCallLimit
    /\ QuestionFails
    /\ UNCHANGED <<crag, calls>>

Failed ==
    [learner EXCEPT !.node = IF learner.pending = 1 THEN "model" ELSE "tools",
                    !.pending = @ - 1]

(* Fault: a result's sources count whichever tool they come from.          *)
SourcesOfEveryTool(tool, sources) == sources

_extract_retrieval_sources(tool, sources) == IF tool \in RetrievalTools THEN sources ELSE {}

Succeeded(tool, sources) ==
    [Failed EXCEPT !.succeeded = @ \cup {tool},
                   !.sources = @ \cup _extract_retrieval_sources(tool, sources)]

Calls(tool) == learner.node = "tools" /\ tool \in build_learner_tools

(* No context is trusted: the answer stands on the documents alone.        *)
run_rag_tool ==
    /\ Calls(RetrievalTool)
    /\ \E question \in Queries \ {"blank"} : crag' = Invoked(question, FALSE)
    /\ learner' = [learner EXCEPT !.node = "await_rag"]
    /\ UNCHANGED calls

LearnerAwaitsCrag ==
    /\ learner.node = "await_rag"
    /\ CragNext
    /\ UNCHANGED learner

_sources_from_retrieval_result == {crag.sources} \ {0}

(* What the graph raised is a failed result without sources.               *)
RagToolReturns ==
    /\ learner.node = "await_rag"
    /\ \/ /\ crag.node = "end"
          /\ learner' = Succeeded(RetrievalTool, _sources_from_retrieval_result)
       \/ /\ crag.node = "raised"
          /\ learner' = Failed
    /\ crag' = NotRunning
    /\ UNCHANGED calls

(* The search may find nothing, or raise before its summary is asked for.  *)
run_tavily_tool ==
    /\ Calls("tavily_search_tool")
    /\ \/ /\ \E pages \in {{}, {Web}} :
                learner' \in {Succeeded("tavily_search_tool", pages), Failed}
          /\ CallsModel
       \/ /\ learner' = Failed
          /\ UNCHANGED calls
    /\ UNCHANGED crag

(* The structured answer or the last message is returned; a blank one is   *)
(* an error.  Nothing is stored in either case.                            *)
LearnerResponds ==
    /\ learner.node = "answered"
    /\ learner' = NoQuestion
    /\ UNCHANGED <<crag, calls>>

LearnerNext ==
    \/ CallLearnerModel \/ ModelLimitExceeded
    \/ run_rag_tool \/ LearnerAwaitsCrag \/ RagToolReturns
    \/ run_tavily_tool
    \/ LearnerResponds

-----------------------------------------------------------------------------
(* Properties. *)

LearnerCalls == ModelCallLimit + ToolCallLimit * CragCalls

(* A response accounts for the answer it carries: every tool whose result  *)
(* the model had is one the response says was available, and sources are   *)
(* documents of the RAG graph, shown only when that graph answered.        *)
LearnerResponsesAccountForThemselves ==
    learner.node = "answered" =>
        /\ learner.succeeded \subseteq _tool_names_for_metadata
        /\ learner.sources \subseteq Documents
        /\ learner.sources # {} => RetrievalTool \in learner.succeeded
=============================================================================

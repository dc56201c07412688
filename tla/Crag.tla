--------------------------------- MODULE Crag ---------------------------------
(***************************************************************************)
(* The corrective RAG graph: retrieve, rerank and grade documents, then    *)
(* generate and check an answer, with rewrites of the query in between and *)
(* a fallback answer when they are used up.  What a model or the retriever *)
(* answers is open; any of them may raise, which ends the invocation.      *)
(* Documents are told apart by the retrieval they come from: 0 stands for  *)
(* no document, n for those of the retrieval under n - 1 rewrites.         *)
(***************************************************************************)
EXTENDS Naturals

CONSTANT MaxRewrites    \* max_rewrite_attempts

ASSUME MaxRewritesAssumption == MaxRewrites \in Nat

VARIABLES
    crag,     \* the state of the graph and the node it is at
    calls     \* history: calls of a language model since the turn began

cragVars == <<crag, calls>>

Documents == 0..MaxRewrites + 1
Queries   == {"blank", "plain", "injection"}     \* "blank" before a rewrite too
Grades    == {"none", "yes", "no"}

CallingNodes == {"grade", "rewrite", "generate", "quality_check", "answer_grade", "fallback"}
CragNodes    == CallingNodes \cup {"retrieve", "rerank", "end", "raised", "idle"}

Answers == [by : {"nobody", "generator", "fallback"}, of : Documents]
Blank   == [by |-> "nobody", of |-> 0]

CRAGState ==
    [node : CragNodes,
     question : Queries \ {"blank"},
     trusted_context : BOOLEAN,
     attempts : 0..MaxRewrites,
     rewritten : Queries,
     documents : Documents,
     context : Documents,             \* the documents formatted in it
     answer : Answers,
     hallucination_grade : Grades,
     answer_grade : Grades,
     sources : Documents]             \* evidence_ledger.sources

NotRunning ==
    [node |-> "idle", question |-> "plain", trusted_context |-> FALSE, attempts |-> 0,
     rewritten |-> "blank", documents |-> 0, context |-> 0, answer |-> Blank,
     hallucination_grade |-> "none", answer_grade |-> "none", sources |-> 0]

Invoked(question, trusted) ==
    [NotRunning EXCEPT !.node = "retrieve", !.question = question,
                       !.trusted_context = trusted]

CragTypeOK == crag \in CRAGState /\ calls \in Nat

CragInit ==
    /\ \E question \in Queries \ {"blank"}, trusted \in BOOLEAN :
          crag = Invoked(question, trusted)
    /\ calls = 0

-----------------------------------------------------------------------------
(* Routers. *)

(* Fault: the attempt that is about to start is not counted. *)
OneRewriteTooMany(last) == IF crag.attempts <= MaxRewrites THEN "rewrite" ELSE last

RewriteOr(last) == IF crag.attempts < MaxRewrites THEN "rewrite" ELSE last

decide_after_grade(grade) == IF grade = "relevant" THEN "generate" ELSE RewriteOr("fallback")

decide_after_quality(grounded, addresses) ==
    IF grounded = "yes" /\ addresses = "yes" THEN "end" ELSE RewriteOr("fallback")

-----------------------------------------------------------------------------
(* Nodes. *)

Query == IF crag.rewritten # "blank" THEN crag.rewritten ELSE crag.question

CallsModel == calls' = calls + 1

node_retrieve ==
    /\ crag.node = "retrieve"
    /\ \/ /\ Query = "injection"
          /\ crag' = [crag EXCEPT !.node = "rerank", !.documents = 0]
       \/ /\ Query # "injection"
          /\ \E docs \in {0, crag.attempts + 1} :
                crag' = [crag EXCEPT !.node = "rerank", !.documents = docs,
                                     !.sources = docs]
    /\ UNCHANGED calls

(* The reranker drops and reorders; when it fails the order is kept. *)
node_rerank ==
    /\ crag.node = "rerank"
    /\ crag' = [crag EXCEPT !.node = "grade",
                   !.sources = IF crag.documents = 0 THEN @ ELSE crag.documents]
    /\ UNCHANGED calls

node_grade ==
    /\ crag.node = "grade"
    /\ \/ /\ crag.documents = 0
          /\ crag' = [crag EXCEPT !.node = decide_after_grade("not_relevant")]
          /\ UNCHANGED calls
       \/ /\ crag.documents # 0
          /\ \E grade \in {"relevant", "not_relevant"} :
                crag' = [crag EXCEPT !.node = decide_after_grade(grade)]
          /\ CallsModel

node_rewrite ==
    /\ crag.node = "rewrite"
    /\ \E text \in Queries :
          crag' = [crag EXCEPT !.node = "retrieve", !.rewritten = text,
                               !.attempts = @ + 1]
    /\ CallsModel

(* Fault: the context of an earlier attempt is kept. *)
KeepsFirstContext(answer) ==
    [crag EXCEPT !.node = "quality_check", !.answer = answer,
                 !.context = IF @ = 0 THEN crag.documents ELSE @]

Generated(answer) ==
    [crag EXCEPT !.node = "quality_check", !.answer = answer, !.context = crag.documents]

node_generate ==
    /\ crag.node = "generate"
    /\ \E answer \in {Blank, [by |-> "generator", of |-> crag.documents]} :
          crag' = Generated(answer)
    /\ CallsModel

CheckedContext == IF crag.context # 0 THEN crag.context ELSE crag.documents

Unusable == crag.answer = Blank \/ (CheckedContext = 0 /\ ~crag.trusted_context)

(* The two graders are called one after the other. *)
node_quality_check ==
    \/ /\ crag.node = "quality_check"
       /\ Unusable
       /\ crag' = [crag EXCEPT !.node = decide_after_quality("no", "no"),
                      !.hallucination_grade = "no", !.answer_grade = "no"]
       /\ UNCHANGED calls
    \/ /\ crag.node = "quality_check"
       /\ ~Unusable
       /\ \E grounded \in {"yes", "no"} :
             crag' = [crag EXCEPT !.node = "answer_grade", !.hallucination_grade = grounded]
       /\ CallsModel
    \/ /\ crag.node = "answer_grade"
       /\ \E addresses \in {"yes", "no"} :
             crag' = [crag EXCEPT
                         !.node = decide_after_quality(crag.hallucination_grade, addresses),
                         !.answer_grade = addresses]
       /\ CallsModel

node_fallback ==
    /\ crag.node = "fallback"
    /\ \E by \in {"nobody", "fallback"} :
          crag' = [crag EXCEPT !.node = "end", !.answer = [by |-> by, of |-> 0],
                               !.context = 0, !.documents = 0]
    /\ CallsModel

CallsAModel ==
    /\ crag.node \in CallingNodes
    /\ ~(crag.node = "grade" /\ crag.documents = 0)
    /\ ~(crag.node = "quality_check" /\ Unusable)

(* Nothing in the graph catches what a model or the retriever raises. *)
CragRaises ==
    \/ /\ CallsAModel
       /\ crag' = [crag EXCEPT !.node = "raised"]
       /\ CallsModel
    \/ /\ crag.node = "retrieve"
       /\ Query # "injection"
       /\ crag' = [crag EXCEPT !.node = "raised"]
       /\ UNCHANGED calls

CragNode ==
    \/ node_retrieve \/ node_rerank \/ node_grade \/ node_rewrite
    \/ node_generate \/ node_quality_check \/ node_fallback

CragNext == CragNode \/ CragRaises

CragSpec == CragInit /\ [][CragNext]_cragVars

-----------------------------------------------------------------------------
(* Properties. *)

CragCalls == 5 * MaxRewrites + 5

(* What a caller of the graph receives hangs together, however many        *)
(* answers were thrown away before: a generated answer was made from the   *)
(* documents and the context that come with it, both graders accepted it   *)
(* against that context, and the evidence names those documents; any other *)
(* answer is a fallback that comes with no document and no context.        *)
AnswersComeWithTheirEvidence ==
    crag.node = "end" =>
        \/ /\ crag.answer.by = "generator"
           /\ crag.answer.of # 0
           /\ crag.documents = crag.answer.of
           /\ crag.context = crag.answer.of
           /\ crag.sources = crag.answer.of
           /\ crag.hallucination_grade = "yes" /\ crag.answer_grade = "yes"
        \/ /\ crag.answer.by # "generator"
           /\ crag.documents = 0 /\ crag.context = 0
           /\ crag.attempts = MaxRewrites
=============================================================================

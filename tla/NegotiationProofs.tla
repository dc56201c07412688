-------------------------- MODULE NegotiationProofs --------------------------
(***************************************************************************)
(* Proofs about the turns of a negotiation, for every limit on turns,      *)
(* rewrites and calls.  First the corrective RAG graph on its own: what it *)
(* answers comes with its evidence, within a budget of calls.  Then the    *)
(* graph, its agents and the learner around one CRAG graph, which keep the *)
(* promises of TurnProtocol, whole turns, ledgers and budgets.             *)
(***************************************************************************)
EXTENDS Negotiation, TLAPS

-----------------------------------------------------------------------------
(* The CRAG graph. *)

(* The evidence names the documents the attempt works on, if there are any. *)
SourcesAreCurrent == crag.documents # 0 => crag.sources = crag.documents

(* What each node relies on.  Only documents graded relevant are generated *)
(* from, only what was generated is graded, and the fallback comes after   *)
(* the last rewrite.                                                       *)
NodesAreReady ==
    /\ crag.node \in {"rerank", "grade", "generate", "quality_check",
                      "answer_grade"} => SourcesAreCurrent
    /\ crag.node \in {"generate", "quality_check", "answer_grade"} =>
          crag.documents # 0
    /\ crag.node \in {"quality_check", "answer_grade"} =>
          /\ crag.context = crag.documents
          /\ crag.answer \in {Blank, [by |-> "generator", of |-> crag.documents]}
    /\ crag.node = "answer_grade" => crag.answer # Blank
    /\ crag.node = "rewrite" => crag.attempts < MaxRewrites
    /\ crag.node = "fallback" => crag.attempts = MaxRewrites

(* The calls that may still come, at worst: an attempt grades, generates,  *)
(* and checks twice, and a rewrite leads to the next one.                  *)
AtWorst(at) ==
    CASE at \in {"retrieve", "rerank", "grade"} -> 5
      [] at = "generate"                        -> 4
      [] at = "quality_check"                   -> 3
      [] at = "answer_grade"                    -> 2
      [] at \in {"rewrite", "fallback"}         -> 1
      [] OTHER                                  -> 0

Remaining(c) == AtWorst(c.node) + 5 * (MaxRewrites - c.attempts)

WithinBudget == calls' + Remaining(crag') <= calls + Remaining(crag)

CallsAreBudgeted == calls + Remaining(crag) <= CragCalls

(* What a caller of the graph may rely on, however many calls it has made  *)
(* before; and the invariant of the graph alone.                           *)
CragSound ==
    /\ CragTypeOK
    /\ NodesAreReady
    /\ AnswersComeWithTheirEvidence

CragInv == CragSound /\ CallsAreBudgeted

-----------------------------------------------------------------------------
(* The call budget of each node as plain equations. *)
LEMMA WorstCases ==
    /\ AtWorst("retrieve") = 5 /\ AtWorst("rerank") = 5 /\ AtWorst("grade") = 5
    /\ AtWorst("generate") = 4
    /\ AtWorst("quality_check") = 3 /\ AtWorst("answer_grade") = 2
    /\ AtWorst("rewrite") = 1 /\ AtWorst("fallback") = 1
    /\ AtWorst("end") = 0 /\ AtWorst("raised") = 0
BY DEF AtWorst

(* The routers: the node an attempt leads to, and what may be relied on there. *)
LEMMA Rewrites ==
    ASSUME CragTypeOK, NEW last
    PROVE  \/ RewriteOr(last) = "rewrite" /\ crag.attempts < MaxRewrites
           \/ RewriteOr(last) = last /\ crag.attempts = MaxRewrites
<1>1. crag.attempts \in 0..MaxRewrites
  BY DEF CragTypeOK, CRAGState
<1> QED
  BY <1>1, MaxRewritesAssumption DEF RewriteOr

(* An attempt that is rejected is followed by a rewrite if one is left. *)
RejectedTo(at) ==
    \/ at = "rewrite" /\ crag.attempts < MaxRewrites
    \/ at = "fallback" /\ crag.attempts = MaxRewrites

LEMMA GradesLead ==
    ASSUME CragTypeOK, NEW grade
    PROVE  \/ decide_after_grade(grade) = "generate" /\ grade = "relevant"
           \/ RejectedTo(decide_after_grade(grade))
BY Rewrites DEF decide_after_grade, RejectedTo

LEMMA ChecksLead ==
    ASSUME CragTypeOK, NEW grounded, NEW addresses
    PROVE  \/ /\ decide_after_quality(grounded, addresses) = "end"
              /\ grounded = "yes" /\ addresses = "yes"
           \/ RejectedTo(decide_after_quality(grounded, addresses))
BY Rewrites DEF decide_after_quality, RejectedTo

(* The calls that remain are a number, and all of them before the first    *)
(* attempt.                                                                *)
LEMMA RemainingCalls ==
    ASSUME NEW c \in CRAGState
    PROVE  Remaining(c) \in Nat
<1>1. AtWorst(c.node) \in Nat
  BY DEF AtWorst
<1> QED
  BY <1>1, MaxRewritesAssumption DEF Remaining, CRAGState

LEMMA InvokedGraph ==
    ASSUME NEW question \in Queries \ {"blank"}, NEW trusted \in BOOLEAN,
           NEW c, c = Invoked(question, trusted)
    PROVE  c \in CRAGState /\ c.node = "retrieve" /\ Remaining(c) = CragCalls
<1>1. c = [node |-> "retrieve", question |-> question,
           trusted_context |-> trusted, attempts |-> 0, rewritten |-> "blank",
           documents |-> 0, context |-> 0, answer |-> Blank,
           hallucination_grade |-> "none", answer_grade |-> "none",
           sources |-> 0]
  BY DEF Invoked, NotRunning
<1>2. 0 \in 0..MaxRewrites /\ 0 \in Documents
  BY MaxRewritesAssumption DEF Documents
<1>3. "retrieve" \in CragNodes /\ "blank" \in Queries /\ "none" \in Grades
  BY DEF CragNodes, Queries, Grades
<1>4. Blank \in Answers
  BY <1>2 DEF Blank, Answers
<1>5. c \in CRAGState
  BY <1>1, <1>2, <1>3, <1>4 DEF CRAGState
<1>6. c.node = "retrieve" /\ c.attempts = 0
  BY <1>1
<1>7. Remaining(c) = CragCalls
  BY <1>6, WorstCases, MaxRewritesAssumption DEF Remaining, CragCalls
<1> QED
  BY <1>5, <1>6, <1>7

(* The graph starts before its first attempt. *)
LEMMA CragInitHolds == CragInit => CragInv
<1> SUFFICES ASSUME CragInit PROVE CragInv
  OBVIOUS
<1>1. PICK question \in Queries \ {"blank"}, trusted \in BOOLEAN :
          crag = Invoked(question, trusted)
  BY DEF CragInit
<1>2. crag \in CRAGState /\ crag.node = "retrieve" /\ Remaining(crag) = CragCalls
  BY <1>1, InvokedGraph
<1>3. CragTypeOK /\ CallsAreBudgeted
  BY <1>2, MaxRewritesAssumption DEF CragInit, CragTypeOK, CallsAreBudgeted, CragCalls
<1>4. NodesAreReady /\ AnswersComeWithTheirEvidence
  BY <1>2 DEF NodesAreReady, AnswersComeWithTheirEvidence
<1> QED
  BY <1>3, <1>4 DEF CragInv, CragSound

-----------------------------------------------------------------------------
(* The steps, one lemma per node. *)

LEMMA RetrieveKeeps == CragSound /\ node_retrieve => CragSound' /\ WithinBudget
<1> SUFFICES ASSUME CragSound, node_retrieve PROVE CragSound' /\ WithinBudget
  OBVIOUS
<1> USE DEF CragSound, node_retrieve
<1>1. CragTypeOK'
  <2>1. crag.attempts + 1 \in Documents /\ 0 \in Documents
    BY MaxRewritesAssumption DEF CragTypeOK, CRAGState, Documents
  <2>2. "rerank" \in CragNodes
    BY DEF CragNodes
  <2>3. CASE crag' = [crag EXCEPT !.node = "rerank", !.documents = 0]
    BY <2>1, <2>2, <2>3 DEF CragTypeOK, CRAGState
  <2>4. ASSUME NEW docs \in {0, crag.attempts + 1},
               crag' = [crag EXCEPT !.node = "rerank", !.documents = docs,
                                    !.sources = docs]
        PROVE  CragTypeOK'
    <3>1. docs \in Documents
      BY <2>1
    <3>2. crag' \in CRAGState
      BY <2>2, <2>4, <3>1 DEF CragTypeOK, CRAGState
    <3> QED
      BY <3>2 DEF CragTypeOK
  <2> QED
    BY <2>3, <2>4
<1>2. NodesAreReady'
  BY ZenonT(60) DEF NodesAreReady, SourcesAreCurrent, CragTypeOK, CRAGState
<1>3. AnswersComeWithTheirEvidence'
  BY DEF AnswersComeWithTheirEvidence, CragTypeOK, CRAGState
<1>4. WithinBudget
  <2>1. crag'.node = "rerank" /\ crag'.attempts = crag.attempts /\ calls' = calls
    BY DEF CragTypeOK, CRAGState
  <2> QED
    BY <2>1, WorstCases, MaxRewritesAssumption
       DEF WithinBudget, Remaining, CragTypeOK, CRAGState
<1> QED
  BY <1>1, <1>2, <1>3, <1>4

LEMMA RerankKeeps == CragSound /\ node_rerank => CragSound' /\ WithinBudget
<1> SUFFICES ASSUME CragSound, node_rerank PROVE CragSound' /\ WithinBudget
  OBVIOUS
<1> USE DEF CragSound, node_rerank
<1>1. CragTypeOK'
  BY DEF CragTypeOK, CRAGState, CragNodes, CallingNodes
<1>2. NodesAreReady'
  BY DEF NodesAreReady, SourcesAreCurrent, CragTypeOK, CRAGState
<1>3. AnswersComeWithTheirEvidence'
  BY DEF AnswersComeWithTheirEvidence, CragTypeOK, CRAGState
<1>4. WithinBudget
  BY WorstCases, MaxRewritesAssumption DEF WithinBudget, Remaining, CragTypeOK, CRAGState
<1> QED
  BY <1>1, <1>2, <1>3, <1>4

LEMMA GradeKeeps == CragSound /\ node_grade => CragSound' /\ WithinBudget
<1> SUFFICES ASSUME CragSound, node_grade PROVE CragSound' /\ WithinBudget
  OBVIOUS
<1> USE DEF CragSound
<1>1. PICK at : /\ crag' = [crag EXCEPT !.node = at]
                /\ \/ at = "generate" /\ crag.documents # 0
                   \/ RejectedTo(at)
                /\ calls' \in {calls, calls + 1}
  <2>1. CASE crag.documents = 0
    BY <2>1, GradesLead DEF node_grade
  <2>2. CASE crag.documents # 0
    BY <2>2, GradesLead DEF node_grade, CallsModel
  <2> QED
    BY <2>1, <2>2
<1>2. crag.node = "grade"
  BY DEF node_grade
<1>3. CragTypeOK'
  <2>1. at \in CragNodes
    BY <1>1 DEF RejectedTo, CragNodes, CallingNodes
  <2> QED
    BY <1>1, <2>1 DEF CragTypeOK, CRAGState
<1>4. NodesAreReady'
  BY <1>1, <1>2 DEF NodesAreReady, SourcesAreCurrent, RejectedTo, CragTypeOK, CRAGState
<1>5. AnswersComeWithTheirEvidence'
  BY <1>1 DEF AnswersComeWithTheirEvidence, RejectedTo, CragTypeOK, CRAGState
<1>6. WithinBudget
  BY <1>1, <1>2, WorstCases, MaxRewritesAssumption
     DEF WithinBudget, Remaining, RejectedTo, CragTypeOK, CRAGState
<1> QED
  BY <1>3, <1>4, <1>5, <1>6

LEMMA RewriteKeeps == CragSound /\ node_rewrite => CragSound' /\ WithinBudget
<1> SUFFICES ASSUME CragSound, node_rewrite PROVE CragSound' /\ WithinBudget
  OBVIOUS
<1> USE DEF CragSound, node_rewrite, CallsModel
<1>1. crag.attempts < MaxRewrites /\ crag.attempts \in 0..MaxRewrites
  BY DEF NodesAreReady, CragTypeOK, CRAGState
<1>2. CragTypeOK'
  <2>1. crag.attempts + 1 \in 0..MaxRewrites
    BY <1>1, MaxRewritesAssumption
  <2>2. "retrieve" \in CragNodes
    BY DEF CragNodes
  <2>3. calls + 1 \in Nat
    BY DEF CragTypeOK
  <2> QED
    BY <2>1, <2>2, <2>3 DEF CragTypeOK, CRAGState
<1>3. NodesAreReady'
  BY DEF NodesAreReady, CragTypeOK, CRAGState
<1>4. AnswersComeWithTheirEvidence'
  BY DEF AnswersComeWithTheirEvidence, CragTypeOK, CRAGState
<1>5. WithinBudget
  <2>1. crag'.node = "retrieve" /\ crag'.attempts = crag.attempts + 1
    BY DEF CragTypeOK, CRAGState
  <2> QED
    BY <1>1, <2>1, WorstCases, MaxRewritesAssumption
       DEF WithinBudget, Remaining, CragTypeOK
<1> QED
  BY <1>2, <1>3, <1>4, <1>5

LEMMA GenerateKeeps == CragSound /\ node_generate => CragSound' /\ WithinBudget
<1> SUFFICES ASSUME CragSound, node_generate PROVE CragSound' /\ WithinBudget
  OBVIOUS
<1> USE DEF CragSound
<1>1. PICK answer \in {Blank, [by |-> "generator", of |-> crag.documents]} :
          crag' = Generated(answer)
  BY DEF node_generate
<1>2. crag.node = "generate" /\ calls' = calls + 1
  BY DEF node_generate, CallsModel
<1>3. CragTypeOK'
  <2>1. answer \in Answers
    <3>1. crag.documents \in Documents /\ 0 \in Documents
      BY MaxRewritesAssumption DEF Documents, CragTypeOK, CRAGState
    <3>2. Blank \in Answers /\ [by |-> "generator", of |-> crag.documents] \in Answers
      BY <3>1 DEF Answers, Blank
    <3> QED
      BY <3>2
  <2>2. "quality_check" \in CragNodes
    BY DEF CragNodes, CallingNodes
  <2>3. crag' \in CRAGState
    BY <1>1, <2>1, <2>2 DEF CragTypeOK, CRAGState, Generated
  <2> QED
    BY <1>2, <2>3 DEF CragTypeOK
<1>4. /\ crag'.node = "quality_check" /\ crag'.attempts = crag.attempts
      /\ crag'.documents = crag.documents /\ crag'.context = crag.documents
      /\ crag'.sources = crag.sources /\ crag'.answer = answer
  BY <1>1 DEF Generated, CragTypeOK, CRAGState
<1>5. NodesAreReady'
  BY <1>1, <1>2, <1>4 DEF NodesAreReady, SourcesAreCurrent
<1>6. AnswersComeWithTheirEvidence'
  BY <1>4 DEF AnswersComeWithTheirEvidence
<1>7. WithinBudget
  BY <1>2, <1>4, WorstCases, MaxRewritesAssumption
     DEF WithinBudget, Remaining, CragTypeOK, CRAGState
<1> QED
  BY <1>3, <1>5, <1>6, <1>7

(* The check ends an attempt in three ways: nothing to check, grounded so  *)
(* that the second grader is asked, or both graders have answered.         *)
LEMMA CheckKeeps == CragSound /\ node_quality_check => CragSound' /\ WithinBudget
<1> SUFFICES ASSUME CragSound, node_quality_check PROVE CragSound' /\ WithinBudget
  OBVIOUS
<1> USE DEF CragSound
<1>1. ASSUME crag.node = "quality_check", Unusable, UNCHANGED calls,
             crag' = [crag EXCEPT !.node = decide_after_quality("no", "no"),
                         !.hallucination_grade = "no", !.answer_grade = "no"]
      PROVE  CragSound' /\ WithinBudget
  <2>1. RejectedTo(decide_after_quality("no", "no"))
    BY ChecksLead
  <2>2. /\ RejectedTo(crag'.node) /\ crag'.attempts = crag.attempts
    BY <1>1, <2>1 DEF CragTypeOK, CRAGState
  <2>3. CragTypeOK'
    <3>1. decide_after_quality("no", "no") \in CragNodes /\ "no" \in Grades
      BY <2>1 DEF RejectedTo, CragNodes, CallingNodes, Grades
    <3> QED
      BY <1>1, <3>1 DEF CragTypeOK, CRAGState
  <2>4. NodesAreReady' /\ AnswersComeWithTheirEvidence'
    BY <2>2 DEF RejectedTo, NodesAreReady, AnswersComeWithTheirEvidence
  <2>5. WithinBudget
    BY <1>1, <2>2, WorstCases, MaxRewritesAssumption
       DEF RejectedTo, WithinBudget, Remaining, CragTypeOK, CRAGState
  <2> QED
    BY <2>3, <2>4, <2>5
<1>2. ASSUME crag.node = "quality_check", ~Unusable, calls' = calls + 1,
             NEW grounded \in {"yes", "no"},
             crag' = [crag EXCEPT !.node = "answer_grade", !.hallucination_grade = grounded]
      PROVE  CragSound' /\ WithinBudget
  <2>1. /\ crag'.node = "answer_grade" /\ crag'.attempts = crag.attempts
        /\ crag'.documents = crag.documents /\ crag'.context = crag.context
        /\ crag'.sources = crag.sources /\ crag'.answer = crag.answer
    BY <1>2 DEF CragTypeOK, CRAGState
  <2>2. CragTypeOK'
    <3>1. "answer_grade" \in CragNodes /\ grounded \in Grades
      BY DEF CragNodes, CallingNodes, Grades
    <3>2. crag' \in CRAGState
      BY <1>2, <3>1 DEF CragTypeOK, CRAGState
    <3> QED
      BY <1>2, <3>2 DEF CragTypeOK
  <2>3. NodesAreReady'
    BY <1>2, <2>1 DEF NodesAreReady, SourcesAreCurrent, Unusable
  <2>4. AnswersComeWithTheirEvidence'
    BY <2>1 DEF AnswersComeWithTheirEvidence
  <2>5. WithinBudget
    BY <1>2, <2>1, WorstCases, MaxRewritesAssumption
       DEF WithinBudget, Remaining, CragTypeOK, CRAGState
  <2> QED
    BY <2>2, <2>3, <2>4, <2>5
<1>3. ASSUME crag.node = "answer_grade", calls' = calls + 1,
             NEW addresses \in {"yes", "no"},
             crag' = [crag EXCEPT
                         !.node = decide_after_quality(crag.hallucination_grade, addresses),
                         !.answer_grade = addresses]
      PROVE  CragSound' /\ WithinBudget
  <2>1. /\ crag'.node = decide_after_quality(crag.hallucination_grade, addresses)
        /\ crag'.attempts = crag.attempts
        /\ crag'.documents = crag.documents /\ crag'.context = crag.context
        /\ crag'.sources = crag.sources /\ crag'.answer = crag.answer
        /\ crag'.hallucination_grade = crag.hallucination_grade
        /\ crag'.answer_grade = addresses
    BY <1>3 DEF CragTypeOK, CRAGState
  <2>2. \/ /\ crag'.node = "end"
           /\ crag'.hallucination_grade = "yes" /\ crag'.answer_grade = "yes"
        \/ RejectedTo(crag'.node)
    BY <2>1, ChecksLead
  <2>3. CragTypeOK'
    <3>1. /\ decide_after_quality(crag.hallucination_grade, addresses) \in CragNodes
          /\ addresses \in Grades
      BY <2>1, <2>2 DEF RejectedTo, CragNodes, CallingNodes, Grades
    <3>2. crag' \in CRAGState
      BY <1>3, <3>1 DEF CragTypeOK, CRAGState
    <3> QED
      BY <1>3, <3>2 DEF CragTypeOK
  <2>4. NodesAreReady'
    BY <2>1, <2>2 DEF NodesAreReady, RejectedTo
  <2>5. AnswersComeWithTheirEvidence'
    BY <1>3, <2>1, <2>2 DEF AnswersComeWithTheirEvidence, NodesAreReady,
       SourcesAreCurrent, RejectedTo, Blank
  <2>6. WithinBudget
    BY <1>3, <2>1, <2>2, WorstCases, MaxRewritesAssumption
       DEF RejectedTo, WithinBudget, Remaining, CragTypeOK, CRAGState
  <2> QED
    BY <2>3, <2>4, <2>5, <2>6
<1> QED
  BY <1>1, <1>2, <1>3 DEF node_quality_check, CallsModel

LEMMA FallbackKeeps == CragSound /\ node_fallback => CragSound' /\ WithinBudget
<1> SUFFICES ASSUME CragSound, node_fallback PROVE CragSound' /\ WithinBudget
  OBVIOUS
<1> USE DEF CragSound
<1>1. PICK by \in {"nobody", "fallback"} :
          crag' = [crag EXCEPT !.node = "end", !.answer = [by |-> by, of |-> 0],
                               !.context = 0, !.documents = 0]
  BY DEF node_fallback
<1>2. crag.node = "fallback" /\ crag.attempts = MaxRewrites /\ calls' = calls + 1
  BY DEF node_fallback, CallsModel, NodesAreReady
<1>3. CragTypeOK'
  <2>1. 0 \in Documents
    BY MaxRewritesAssumption DEF Documents
  <2>2. [by |-> by, of |-> 0] \in Answers /\ "end" \in CragNodes
    BY <2>1 DEF Answers, CragNodes
  <2>3. crag' \in CRAGState
    BY <1>1, <2>1, <2>2 DEF CragTypeOK, CRAGState
  <2> QED
    BY <1>2, <2>3 DEF CragTypeOK
<1>4. /\ crag'.node = "end" /\ crag'.attempts = crag.attempts
      /\ crag'.answer = [by |-> by, of |-> 0]
      /\ crag'.documents = 0 /\ crag'.context = 0
  BY <1>1 DEF CragTypeOK, CRAGState
<1>5. NodesAreReady'
  BY <1>4 DEF NodesAreReady
<1>6. AnswersComeWithTheirEvidence'
  BY <1>2, <1>4 DEF AnswersComeWithTheirEvidence
<1>7. WithinBudget
  BY <1>2, <1>4, WorstCases, MaxRewritesAssumption
     DEF WithinBudget, Remaining, CragTypeOK
<1> QED
  BY <1>3, <1>5, <1>6, <1>7

(* A node that raises has spent at most the call it made. *)
LEMMA RaiseKeeps == CragSound /\ CragRaises => CragSound' /\ WithinBudget
<1> SUFFICES ASSUME CragSound, CragRaises PROVE CragSound' /\ WithinBudget
  OBVIOUS
<1> USE DEF CragSound
<1>1. crag' = [crag EXCEPT !.node = "raised"]
  BY DEF CragRaises
<1>2. \/ crag.node \in CallingNodes /\ calls' = calls + 1
      \/ crag.node = "retrieve" /\ calls' = calls
  BY DEF CragRaises, CallsAModel, CallsModel
<1>3. crag'.node = "raised" /\ crag'.attempts = crag.attempts
  BY <1>1 DEF CragTypeOK, CRAGState
<1>4. CragTypeOK'
  <2>1. "raised" \in CragNodes
    BY DEF CragNodes
  <2>2. crag' \in CRAGState
    BY <1>1, <2>1 DEF CragTypeOK, CRAGState
  <2> QED
    BY <1>2, <2>2 DEF CragTypeOK
<1>5. NodesAreReady' /\ AnswersComeWithTheirEvidence'
  BY <1>3 DEF NodesAreReady, AnswersComeWithTheirEvidence
<1>6. WithinBudget
  BY <1>2, <1>3, WorstCases, MaxRewritesAssumption
     DEF WithinBudget, Remaining, CragTypeOK, CRAGState, CallingNodes
<1> QED
  BY <1>4, <1>5, <1>6

(* A step of the graph, whoever invoked it. *)
LEMMA CragStep == CragSound /\ CragNext => CragSound' /\ WithinBudget
BY RetrieveKeeps, RerankKeeps, GradeKeeps, RewriteKeeps, GenerateKeeps,
   CheckKeeps, FallbackKeeps, RaiseKeeps DEF CragNext, CragNode

-----------------------------------------------------------------------------
(* The graph alone keeps the invariant for every number of rewrites. *)
LEMMA CragInvariance == CragSpec => []CragInv
<1>1. CragInv /\ UNCHANGED cragVars => CragInv'
  BY DEF cragVars, CragInv, CragSound, CragTypeOK, NodesAreReady, SourcesAreCurrent,
     AnswersComeWithTheirEvidence, CallsAreBudgeted
<1>2. CragInv /\ CragNext => CragInv'
  <2> SUFFICES ASSUME CragInv, CragNext PROVE CragInv'
    OBVIOUS
  <2>1. CragSound' /\ WithinBudget
    BY CragStep DEF CragInv
  <2>2. Remaining(crag) \in Nat /\ Remaining(crag') \in Nat /\ calls \in Nat /\ calls' \in Nat
    BY <2>1, RemainingCalls DEF CragInv, CragSound, CragTypeOK
  <2> QED
    BY <2>1, <2>2, MaxRewritesAssumption DEF CragInv, CallsAreBudgeted, WithinBudget, CragCalls
<1> QED
  BY CragInitHolds, <1>1, <1>2, PTL DEF CragSpec

(* The state of the graph stays what its nodes and routers expect. *)
THEOREM CragTypesHold == CragSpec => []CragTypeOK
<1>1. CragInv => CragTypeOK
  BY DEF CragInv, CragSound
<1> QED
  BY <1>1, CragInvariance, PTL

(* However many attempts were thrown away, an answer leaves the graph with *)
(* the documents, the context and the evidence it was made from, accepted  *)
(* by both graders; any other answer comes with none and only after the    *)
(* last rewrite (nodes.py, routing.py).                                    *)
THEOREM AnswersAreEvidenced == CragSpec => []AnswersComeWithTheirEvidence
<1>1. CragInv => AnswersComeWithTheirEvidence
  BY DEF CragInv, CragSound
<1> QED
  BY <1>1, CragInvariance, PTL

(* One invocation calls a language model at most five times per attempt,   *)
(* whatever the models answer and wherever one raises: the loop of         *)
(* rewrites cannot run on (max_rewrite_attempts).                          *)
THEOREM InvocationsAreBudgeted == CragSpec => [](calls <= CragCalls)
<1>1. CragInv => calls <= CragCalls
  <2> SUFFICES ASSUME CragInv PROVE calls <= CragCalls
    OBVIOUS
  <2>1. Remaining(crag) \in Nat /\ calls \in Nat
    BY RemainingCalls DEF CragInv, CragSound, CragTypeOK
  <2> QED
    BY <2>1, MaxRewritesAssumption DEF CragInv, CallsAreBudgeted, CragCalls
<1> QED
  BY <1>1, CragInvariance, PTL

-----------------------------------------------------------------------------
(* The turns. *)

(* One CRAG graph runs at most, for the agent or the tool that awaits it,  *)
(* and no turn begins before a question is answered.                       *)
CragAwaited ==
    \/ learner.node = "await_rag"
    \/ node \in AgentNodes /\ agent.node = "await_rag"

OneAtATime ==
    /\ learner.node # "idle" => node = "idle"
    /\ ~CragAwaited => crag = NotRunning
    /\ node # "idle" => Stored.phase # "ended" /\ simulation.status # "completed"

(* What the learner has collected, at every step of its loop. *)
LearnerIsSound ==
    /\ learner.succeeded \subseteq _tool_names_for_metadata
    /\ learner.sources \subseteq Documents
    /\ learner.sources # {} => RetrievalTool \in learner.succeeded
    /\ learner.node \in {"tools", "await_rag"} <=> learner.pending # 0
    /\ learner.pending <= learner.tool_calls

(* Each tool that has finished may have run the CRAG graph once. *)
FinishedTools == learner.tool_calls - learner.pending

QuestionIsBudgeted ==
    learner.node # "idle" =>
        calls <= learner.model_calls + FinishedTools * CragCalls
                 + (IF learner.node = "await_rag" THEN CragCalls - Remaining(crag) ELSE 0)

(* The agent that runs has the ledger of the graph, with its own steps of  *)
(* this turn, and retries once.                                            *)
AgentIsSound ==
    node \in AgentNodes =>
        /\ agent.node \in {"call_rag", "await_rag"} => agent.name \in {"coach", "evaluator"}
        /\ agent.node \in {"call_rag", "await_rag", "generate", "repair"} =>
              agent.retry_count = 0
        /\ agent.node = "repair" => agent.name # "intent_classifier"
        /\ \A a \in Agents \ {agent.name} :
              agent.evidence_ledger[a] = negotiation.evidence_ledger[a]
        /\ agent.evidence_ledger[agent.name] \cup {ThisTurn}
              = negotiation.evidence_ledger[agent.name] \cup {ThisTurn}

(* The calls the agent may still make, and those of the agents after it.   *)
AgentAhead ==
    IF node \notin AgentNodes THEN 0
    ELSE IF agent.node = "call_rag" THEN CragCalls + 2
    ELSE IF agent.node = "await_rag" THEN Remaining(crag) + 2
    ELSE IF agent.node = "generate" THEN IF agent.name = "intent_classifier" THEN 1 ELSE 2
    ELSE IF agent.node = "repair" THEN 1 ELSE 0

AgentsAfter(n) ==
    IF n \in {"user_proxy", "prepare_context"} THEN 2 * CragCalls + 7
    ELSE IF n = "classify_intent" THEN 2 * CragCalls + 6
    ELSE IF n \in {"call_counterpart", "complete_counterpart_turn"} THEN 2 * CragCalls + 4
    ELSE IF n \in {"rolling_evaluator", "prepare_final_evaluation"} THEN CragCalls + 2 ELSE 0

TurnIsBudgeted == node # "idle" => calls + AgentAhead + AgentsAfter(node) <= TurnCalls

(* How far the turn is: what it has written is of this turn, the rest of   *)
(* the turn before.                                                        *)
Another          == negotiation.phase # "ended"
Counted          == \/ node \in {"rolling_evaluator", "coach", "pause_for_user"}
                    \/ node = "store" /\ Another
Responded        == Counted \/ node = "complete_counterpart_turn"
Advised          == node = "pause_for_user" \/ (node = "store" /\ Another)
Evaluated        == node = "coach" \/ Advised
FinallyEvaluated == node = "finalize" \/ (node = "store" /\ ~Another)

Stamp(done) == IF done THEN ThisTurn ELSE turns

Progress ==
    /\ negotiation.turn_count = Stamp(Counted)
    /\ negotiation.response = Stamp(Responded)
    /\ negotiation.evaluation = Stamp(Evaluated)
    /\ negotiation.coach_advice = Stamp(Advised)
    /\ negotiation.final_evaluation = IF FinallyEvaluated THEN ThisTurn ELSE 0

LedgersProgress ==
    /\ negotiation.evidence_ledger["evaluator"] = 1..Stamp(Evaluated \/ FinallyEvaluated)
    /\ negotiation.evidence_ledger["counterpart"] = 1..Stamp(Responded)
    /\ negotiation.evidence_ledger["coach"] = 1..Stamp(Advised)
    /\ negotiation.evidence_ledger["intent_classifier"] \subseteq 1..ThisTurn

(* What the routers have decided by then: below the limit another round,   *)
(* and an end for the reason it has.                                       *)
Routed ==
    /\ node \in {"store"} \/ Another
    /\ node = "store" /\ Another => negotiation.should_pause
    /\ Responded \/ node \in {"call_counterpart", "classify_intent"} => turns < MaxTurns
    /\ node = "classify_intent" => negotiation.requested_action # "end"
    /\ node = "rolling_evaluator" => negotiation.evaluation_mode = "rolling"
    /\ node = "final_evaluator" => negotiation.evaluation_mode = "final"
    /\ node = "prepare_final_evaluation" =>
          (negotiation.intent_classification = "end"
              <=> turns < MaxTurns /\ negotiation.requested_action # "end")
    /\ node = "final_evaluator" \/ FinallyEvaluated =>
          /\ negotiation.terminal_reason = "turn_limit" <=> turns = MaxTurns
          /\ negotiation.terminal_reason = "classified_intent" <=>
                negotiation.intent_classification = "end"

TurnIsUnderWay == node # "idle" => Progress /\ LedgersProgress /\ Routed

RowIsSettled ==
    /\ node = "idle" => negotiation = Stored
    /\ simulation.status = "completed" <=> Stored.phase = "ended"
    /\ TurnsAreWhole
    /\ LedgersHoldEveryTurn

IInv ==
    /\ TypeOK /\ CragSound
    /\ OneAtATime
    /\ LearnerIsSound
    /\ AgentIsSound
    /\ QuestionIsBudgeted /\ TurnIsBudgeted /\ ModelCallsAreBounded
    /\ TurnIsUnderWay
    /\ RowIsSettled

-----------------------------------------------------------------------------
(* Budgets are numbers, and that of the tools grows with each of them. *)
LEMMA CragCallsAreANumber == CragCalls \in Nat /\ CragCalls >= 5
BY MaxRewritesAssumption DEF CragCalls

LEMMA ToolBudget ==
    ASSUME NEW n \in Nat
    PROVE  n * CragCalls \in Nat /\ (n + 1) * CragCalls = n * CragCalls + CragCalls
<1>1. \A c \in Nat : n * c \in Nat /\ (n + 1) * c = n * c + c
  OBVIOUS
<1> QED
  BY <1>1, CragCallsAreANumber

LEMMA ToolBudgetGrows ==
    ASSUME NEW m \in Nat, NEW n \in Nat, m <= n
    PROVE  m * CragCalls <= n * CragCalls
<1>1. \A c \in Nat, k \in Nat : m * c <= (m + k) * c
  OBVIOUS
<1>2. n - m \in Nat /\ n = m + (n - m)
  OBVIOUS
<1> QED
  BY <1>1, <1>2, CragCallsAreANumber

LEMMA QuestionsStayWithinTheirBudget ==
    ASSUME NEW m \in 0..ModelCallLimit, NEW f \in 0..ToolCallLimit, NEW k \in Nat,
           k <= m + f * CragCalls
    PROVE  k <= LearnerCalls
<1>1. f * CragCalls <= ToolCallLimit * CragCalls
  BY LimitsAssumption, ToolBudgetGrows
<1>2. f * CragCalls \in Nat /\ ToolCallLimit * CragCalls \in Nat
  BY LimitsAssumption, ToolBudget
<1> QED
  BY <1>1, <1>2, LimitsAssumption DEF LearnerCalls

(* A graph that is not running is sound. *)
LEMMA NoGraph ==
    /\ NotRunning \in CRAGState
    /\ \A c : c = NotRunning => c.node = "idle"
<1>1. 0 \in 0..MaxRewrites /\ 0 \in Documents
  BY MaxRewritesAssumption DEF Documents
<1>2. "idle" \in CragNodes /\ "plain" \in Queries /\ "blank" \in Queries /\ "none" \in Grades
      /\ "plain" # "blank"
  BY DEF CragNodes, Queries, Grades
<1>3. Blank \in Answers
  BY <1>1 DEF Blank, Answers
<1> QED
  BY <1>1, <1>2, <1>3 DEF NotRunning, CRAGState

LEMMA NoGraphIsSound ==
    ASSUME crag' = NotRunning, calls' \in Nat
    PROVE  CragSound'
BY NoGraph DEF CragSound, CragTypeOK, NodesAreReady, AnswersComeWithTheirEvidence

LEMMA InvokedIsSound ==
    ASSUME NEW question \in Queries \ {"blank"}, NEW trusted \in BOOLEAN,
           crag' = Invoked(question, trusted), calls' \in Nat
    PROVE  CragSound' /\ Remaining(crag') = CragCalls
BY InvokedGraph DEF CragSound, CragTypeOK, NodesAreReady, AnswersComeWithTheirEvidence

LEMMA SameGraphIsSound ==
    ASSUME CragSound, UNCHANGED crag, calls' \in Nat
    PROVE  CragSound'
BY DEF CragSound, CragTypeOK, NodesAreReady, SourcesAreCurrent, AnswersComeWithTheirEvidence

-----------------------------------------------------------------------------
(* Questions: the negotiation rests, and the graph runs for the tool only. *)
QuestionGoesOn ==
    /\ node = "idle" /\ NothingIsStored
    /\ learner' \in LearnerStates
    /\ CragSound'
    /\ LearnerIsSound'
    /\ QuestionIsBudgeted'
    /\ calls' <= LearnerCalls
    /\ learner'.node # "await_rag" => crag' = NotRunning

LEMMA QuestionKeeps == IInv /\ QuestionGoesOn => IInv'
<1> SUFFICES ASSUME IInv, QuestionGoesOn PROVE IInv'
  OBVIOUS
<1> USE DEF IInv, QuestionGoesOn
<1>1. "idle" \notin AgentNodes
  BY DEF AgentNodes, AgentOf
<1>2. UNCHANGED <<agent, node, negotiation, simulation, turns>> /\ node = "idle"
  BY DEF NothingIsStored
<1>3. TypeOK'
  BY <1>2 DEF TypeOK, CragSound
<1>4. OneAtATime'
  BY <1>1, <1>2 DEF OneAtATime, CragAwaited
<1>5. AgentIsSound' /\ TurnIsBudgeted' /\ TurnIsUnderWay'
  BY <1>1, <1>2 DEF AgentIsSound, TurnIsBudgeted, TurnIsUnderWay
<1>6. ModelCallsAreBounded'
  BY <1>2 DEF ModelCallsAreBounded
<1>7. RowIsSettled'
  BY <1>2 DEF RowIsSettled, TurnsAreWhole, LedgersHoldEveryTurn, Stored
<1> QED
  BY <1>2, <1>3, <1>4, <1>5, <1>6, <1>7

LEMMA LearnerFields ==
    ASSUME NEW l \in LearnerStates
    PROVE  /\ l.node \in {"idle", "model", "tools", "await_rag", "answered"}
           /\ l.retrieval_strategy \in {"crag", "graphrag"} /\ l.tavily_search \in BOOLEAN
           /\ l.model_calls \in 0..ModelCallLimit /\ l.tool_calls \in 0..ToolCallLimit
           /\ l.pending \in 0..ToolCallLimit
           /\ l.succeeded \in SUBSET Tools /\ l.sources \in SUBSET (1..Web)
BY DEF LearnerStates

(* The names in the response are worked out a second time, to the same.    *)
LEMMA NamedTools ==
    ASSUME learner \in LearnerStates
    PROVE  /\ RetrievalTool \in RetrievalTools
           /\ RetrievalTool \in Tools
           /\ build_learner_tools = _tool_names_for_metadata
<1>1. CASE learner.retrieval_strategy = "crag"
  BY <1>1, LearnerFields
     DEF RetrievalTool, RetrievalTools, Tools, build_learner_tools, _tool_names_for_metadata
<1>2. CASE learner.retrieval_strategy = "graphrag"
  BY <1>2, LearnerFields
     DEF RetrievalTool, RetrievalTools, Tools, build_learner_tools, _tool_names_for_metadata
<1> QED
  BY <1>1, <1>2, LearnerFields

LEMMA SameTools ==
    ASSUME learner'.retrieval_strategy = learner.retrieval_strategy,
           learner'.tavily_search = learner.tavily_search
    PROVE  /\ _tool_names_for_metadata' = _tool_names_for_metadata
           /\ RetrievalTool' = RetrievalTool
BY DEF _tool_names_for_metadata, RetrievalTool

(* No question, as it is before the first and after each. *)
LEMMA NoQuestionIsSound ==
    ASSUME learner' = NoQuestion
    PROVE  learner' \in LearnerStates /\ LearnerIsSound' /\ QuestionIsBudgeted'
<1>1. /\ learner'.node = "idle" /\ learner'.succeeded = {} /\ learner'.sources = {}
      /\ learner'.pending = 0 /\ learner'.tool_calls = 0
  BY DEF NoQuestion
<1>2. learner' \in LearnerStates
  BY LimitsAssumption DEF NoQuestion, LearnerStates
<1> QED
  BY <1>1, <1>2 DEF LearnerIsSound, QuestionIsBudgeted

LEMMA AskKeeps == IInv /\ ask_simulation_learner_srvc => QuestionGoesOn
<1> SUFFICES ASSUME IInv, ask_simulation_learner_srvc PROVE QuestionGoesOn
  OBVIOUS
<1>1. /\ node = "idle" /\ learner.node = "idle" /\ NothingIsStored
      /\ calls' = 0 /\ crag' = crag
  BY DEF ask_simulation_learner_srvc, Accepts, ask_simulation_learner
<1>2. PICK retrieval_strategy \in {"crag", "graphrag"}, tavily_search \in BOOLEAN :
          learner' = [NoQuestion EXCEPT !.node = "model", !.tavily_search = tavily_search,
                                        !.retrieval_strategy = retrieval_strategy]
  BY DEF ask_simulation_learner_srvc, ask_simulation_learner
<1>3. /\ learner'.node = "model" /\ learner'.succeeded = {} /\ learner'.sources = {}
      /\ learner'.pending = 0 /\ learner'.tool_calls = 0 /\ learner'.model_calls = 0
  BY <1>2 DEF NoQuestion
<1>4. learner' \in LearnerStates
  <2>1. NoQuestion \in LearnerStates
    BY LimitsAssumption DEF NoQuestion, LearnerStates
  <2> QED
    BY <1>2, <2>1 DEF LearnerStates
<1>5. LearnerIsSound'
  BY <1>3 DEF LearnerIsSound
<1>6. CragSound' /\ crag' = NotRunning
  <2>1. crag = NotRunning
    BY <1>1 DEF IInv, OneAtATime, CragAwaited, AgentNodes, AgentOf
  <2> QED
    BY <1>1, <2>1, NoGraphIsSound
<1>7. QuestionIsBudgeted' /\ calls' <= LearnerCalls
  <2>1. 0 * CragCalls = 0 /\ ToolCallLimit * CragCalls \in Nat
    BY ToolBudget, LimitsAssumption, CragCallsAreANumber
  <2> QED
    BY <1>1, <1>3, <2>1, LimitsAssumption DEF QuestionIsBudgeted, FinishedTools, LearnerCalls
<1> QED
  BY <1>1, <1>4, <1>5, <1>6, <1>7 DEF QuestionGoesOn

LEMMA SpentOnFinishedTools ==
    ASSUME NEW l \in LearnerStates, l.pending <= l.tool_calls
    PROVE  /\ l.tool_calls - l.pending \in 0..ToolCallLimit
           /\ (l.tool_calls - l.pending) * CragCalls \in Nat
<1>1. l.tool_calls - l.pending \in 0..ToolCallLimit
  BY LearnerFields, LimitsAssumption
<1> QED
  BY <1>1, LimitsAssumption, ToolBudget

LEMMA LearnerModelKeeps == IInv /\ NothingIsStored /\ CallLearnerModel => QuestionGoesOn
<1> SUFFICES ASSUME IInv, NothingIsStored, CallLearnerModel PROVE QuestionGoesOn
  OBVIOUS
<1> DEFINE called == [learner EXCEPT !.model_calls = @ + 1]
<1>1. /\ learner.node = "model" /\ learner.model_calls < ModelCallLimit
      /\ calls' = calls + 1 /\ crag' = crag /\ node = "idle" /\ crag = NotRunning
      /\ learner \in LearnerStates /\ calls \in Nat /\ learner.pending = 0
  BY DEF CallLearnerModel, CallsModel, IInv, OneAtATime, CragAwaited, AgentNodes, AgentOf,
     LearnerIsSound, TypeOK, CragTypeOK
<1>2. CragSound'
  BY <1>1, NoGraphIsSound
<1>3. calls <= learner.model_calls + learner.tool_calls * CragCalls
      /\ learner.tool_calls * CragCalls \in Nat
      /\ learner.model_calls \in Nat /\ learner.tool_calls \in 0..ToolCallLimit
      /\ learner.model_calls + 1 \in 0..ModelCallLimit
  <2>1. learner.tool_calls \in Nat /\ learner.model_calls \in Nat
        /\ learner.tool_calls \in 0..ToolCallLimit
        /\ learner.model_calls + 1 \in 0..ModelCallLimit
    BY <1>1, LimitsAssumption, LearnerFields
  <2>2. FinishedTools = learner.tool_calls
    BY <1>1, <2>1 DEF FinishedTools
  <2>3. learner.tool_calls * CragCalls \in Nat
    BY <2>1, ToolBudget
  <2>4. calls <= learner.model_calls + FinishedTools * CragCalls + 0
    BY <1>1 DEF IInv, QuestionIsBudgeted
  <2> QED
    BY <2>1, <2>2, <2>3, <2>4
<1>4. calls' <= LearnerCalls
  <2>1. calls + 1 <= (learner.model_calls + 1) + learner.tool_calls * CragCalls
    BY <1>1, <1>3
  <2> QED
    BY <1>1, <1>3, <2>1, QuestionsStayWithinTheirBudget
<1>5. CASE QuestionFails
  BY <1>1, <1>2, <1>4, <1>5, NoQuestionIsSound DEF QuestionFails, QuestionGoesOn, NoQuestion
<1>6. CASE learner' = [called EXCEPT !.node = "answered"]
  <2>1. /\ learner' \in LearnerStates
        /\ learner'.node = "answered" /\ learner'.model_calls = learner.model_calls + 1
        /\ learner'.tool_calls = learner.tool_calls /\ learner'.pending = 0
        /\ learner'.succeeded = learner.succeeded /\ learner'.sources = learner.sources
        /\ learner'.retrieval_strategy = learner.retrieval_strategy
        /\ learner'.tavily_search = learner.tavily_search
    BY <1>1, <1>3, <1>6 DEF LearnerStates
  <2>2. LearnerIsSound'
    BY <1>1, <1>3, <2>1, SameTools DEF IInv, LearnerIsSound
  <2>3. QuestionIsBudgeted'
    BY <1>1, <1>3, <2>1 DEF QuestionIsBudgeted, FinishedTools
  <2> QED
    BY <1>1, <1>2, <1>4, <2>1, <2>2, <2>3 DEF QuestionGoesOn
<1>7. ASSUME NEW n \in 1..ToolCallLimit, learner.tool_calls + n <= ToolCallLimit,
             learner' = [called EXCEPT !.node = "tools", !.pending = n, !.tool_calls = @ + n]
      PROVE  QuestionGoesOn
  <2>1. learner.tool_calls + n \in 0..ToolCallLimit /\ n \in 0..ToolCallLimit
    BY <1>3, <1>7, LimitsAssumption
  <2>2. /\ learner' \in LearnerStates
        /\ learner'.node = "tools" /\ learner'.model_calls = learner.model_calls + 1
        /\ learner'.tool_calls = learner.tool_calls + n /\ learner'.pending = n
        /\ learner'.succeeded = learner.succeeded /\ learner'.sources = learner.sources
        /\ learner'.retrieval_strategy = learner.retrieval_strategy
        /\ learner'.tavily_search = learner.tavily_search
    BY <1>1, <1>3, <1>7, <2>1 DEF LearnerStates
  <2>3. LearnerIsSound'
    <3>1. n # 0 /\ n <= learner.tool_calls + n
      BY <1>3, <2>1
    <3>2. /\ learner.succeeded \subseteq _tool_names_for_metadata
          /\ learner.sources \subseteq Documents
          /\ learner.sources # {} => RetrievalTool \in learner.succeeded
      BY DEF IInv, LearnerIsSound
    <3> QED
      BY <2>2, <3>1, <3>2, SameTools DEF LearnerIsSound
  <2>4. QuestionIsBudgeted'
    <3>1. learner'.tool_calls - learner'.pending = learner.tool_calls
      BY <1>3, <2>1, <2>2
    <3> QED
      BY <1>1, <1>3, <2>2, <3>1 DEF QuestionIsBudgeted, FinishedTools
  <2> QED
    BY <1>1, <1>2, <1>4, <2>2, <2>3, <2>4 DEF QuestionGoesOn
<1> QED
  <2>1. ASSUME NEW n \in 1..ToolCallLimit, ~(learner.tool_calls + n > ToolCallLimit)
        PROVE  learner.tool_calls + n <= ToolCallLimit
    BY <1>3, <2>1, LimitsAssumption
  <2> QED
    BY <1>5, <1>6, <1>7, <2>1 DEF CallLearnerModel

LEMMA ModelLimitKeeps == IInv /\ NothingIsStored /\ ModelLimitExceeded => QuestionGoesOn
<1> SUFFICES ASSUME IInv, NothingIsStored, ModelLimitExceeded PROVE QuestionGoesOn
  OBVIOUS
<1>1. /\ learner.node = "model" /\ crag' = crag /\ calls' = calls /\ node = "idle"
      /\ crag = NotRunning /\ calls \in Nat /\ learner' = NoQuestion
  BY DEF ModelLimitExceeded, QuestionFails, IInv, OneAtATime, CragAwaited, AgentNodes, AgentOf,
     TypeOK, CragTypeOK
<1>2. calls' <= LearnerCalls
  BY <1>1 DEF IInv, ModelCallsAreBounded
<1> QED
  BY <1>1, <1>2, NoGraphIsSound, NoQuestionIsSound DEF QuestionGoesOn, NoQuestion

LEMMA RespondKeeps == IInv /\ NothingIsStored /\ LearnerResponds => QuestionGoesOn
<1> SUFFICES ASSUME IInv, NothingIsStored, LearnerResponds PROVE QuestionGoesOn
  OBVIOUS
<1>1. /\ learner.node = "answered" /\ crag' = crag /\ calls' = calls /\ node = "idle"
      /\ crag = NotRunning /\ calls \in Nat /\ learner' = NoQuestion
  BY DEF LearnerResponds, IInv, OneAtATime, CragAwaited, AgentNodes, AgentOf,
     TypeOK, CragTypeOK
<1>2. calls' <= LearnerCalls
  BY <1>1 DEF IInv, ModelCallsAreBounded
<1> QED
  BY <1>1, <1>2, NoGraphIsSound, NoQuestionIsSound DEF QuestionGoesOn, NoQuestion

(* While tools run, at least one call is pending and one is left to pay for. *)
LEMMA ToolsAreBudgeted ==
    ASSUME IInv, learner.node \in {"tools", "await_rag"}
    PROVE  /\ node = "idle" /\ learner \in LearnerStates /\ calls \in Nat
           /\ learner.model_calls \in 0..ModelCallLimit /\ learner.model_calls \in Nat
           /\ learner.pending \in 1..ToolCallLimit /\ learner.pending <= learner.tool_calls
           /\ FinishedTools \in Nat /\ FinishedTools + 1 \in 0..ToolCallLimit
           /\ FinishedTools * CragCalls \in Nat
           /\ (FinishedTools + 1) * CragCalls = FinishedTools * CragCalls + CragCalls
           /\ calls <= learner.model_calls + FinishedTools * CragCalls
                       + (IF learner.node = "await_rag" THEN CragCalls - Remaining(crag) ELSE 0)
<1>1. /\ node = "idle" /\ learner \in LearnerStates /\ calls \in Nat
      /\ learner.pending # 0 /\ learner.pending <= learner.tool_calls
  BY DEF IInv, OneAtATime, TypeOK, CragTypeOK, LearnerIsSound
<1>2. /\ learner.model_calls \in 0..ModelCallLimit /\ learner.tool_calls \in 0..ToolCallLimit
      /\ learner.pending \in 0..ToolCallLimit
  BY <1>1, LearnerFields
<1>3. FinishedTools \in Nat /\ FinishedTools + 1 \in 0..ToolCallLimit
      /\ learner.pending \in 1..ToolCallLimit /\ learner.model_calls \in Nat
  BY <1>1, <1>2, LimitsAssumption DEF FinishedTools
<1>4. /\ FinishedTools * CragCalls \in Nat
      /\ (FinishedTools + 1) * CragCalls = FinishedTools * CragCalls + CragCalls
  BY <1>3, ToolBudget
<1>5. calls <= learner.model_calls + FinishedTools * CragCalls
               + (IF learner.node = "await_rag" THEN CragCalls - Remaining(crag) ELSE 0)
  BY DEF IInv, QuestionIsBudgeted
<1> QED
  BY <1>1, <1>2, <1>3, <1>4, <1>5

LEMMA RagToolKeeps == IInv /\ NothingIsStored /\ run_rag_tool => QuestionGoesOn
<1> SUFFICES ASSUME IInv, NothingIsStored, run_rag_tool PROVE QuestionGoesOn
  OBVIOUS
<1>1. learner.node = "tools" /\ learner' = [learner EXCEPT !.node = "await_rag"]
      /\ calls' = calls
  BY DEF run_rag_tool, Calls
<1>2. PICK question \in Queries \ {"blank"} : crag' = Invoked(question, FALSE)
  BY DEF run_rag_tool
<1>3. CragSound' /\ Remaining(crag') = CragCalls
  BY <1>1, <1>2, ToolsAreBudgeted, InvokedIsSound
<1>4. /\ learner' \in LearnerStates /\ learner'.node = "await_rag"
      /\ learner'.model_calls = learner.model_calls
      /\ learner'.tool_calls = learner.tool_calls /\ learner'.pending = learner.pending
      /\ learner'.succeeded = learner.succeeded /\ learner'.sources = learner.sources
      /\ learner'.retrieval_strategy = learner.retrieval_strategy
      /\ learner'.tavily_search = learner.tavily_search
  BY <1>1, ToolsAreBudgeted DEF LearnerStates
<1>5. LearnerIsSound'
  BY <1>1, <1>4, SameTools DEF IInv, LearnerIsSound
<1>6. QuestionIsBudgeted'
  <2>1. calls <= learner.model_calls + FinishedTools * CragCalls + 0
    BY <1>1, ToolsAreBudgeted
  <2> QED
    BY <1>1, <1>3, <1>4, <2>1, CragCallsAreANumber, ToolsAreBudgeted
       DEF QuestionIsBudgeted, FinishedTools
<1>7. calls' <= LearnerCalls
  BY <1>1 DEF IInv, ModelCallsAreBounded
<1> QED
  BY <1>1, <1>3, <1>4, <1>5, <1>6, <1>7, ToolsAreBudgeted DEF QuestionGoesOn

LEMMA LearnerAwaitsKeeps == IInv /\ NothingIsStored /\ LearnerAwaitsCrag => QuestionGoesOn
<1> SUFFICES ASSUME IInv, NothingIsStored, LearnerAwaitsCrag PROVE QuestionGoesOn
  OBVIOUS
<1>1. learner.node = "await_rag" /\ learner' = learner
  BY DEF LearnerAwaitsCrag
<1>2. CragSound' /\ WithinBudget
  BY CragStep DEF LearnerAwaitsCrag, IInv
<1>3. Remaining(crag) \in Nat /\ Remaining(crag') \in Nat /\ calls' \in Nat
  BY <1>2, RemainingCalls DEF IInv, CragSound, CragTypeOK
<1>4. calls' <= learner.model_calls + FinishedTools * CragCalls
                + (CragCalls - Remaining(crag'))
  BY <1>1, <1>2, <1>3, ToolsAreBudgeted, CragCallsAreANumber DEF WithinBudget
<1>5. calls' <= LearnerCalls
  <2>1. calls' <= learner.model_calls + (FinishedTools + 1) * CragCalls
    BY <1>1, <1>3, <1>4, ToolsAreBudgeted, CragCallsAreANumber
  <2> QED
    BY <1>1, <1>3, <2>1, ToolsAreBudgeted, QuestionsStayWithinTheirBudget
<1>6. QuestionIsBudgeted' /\ LearnerIsSound'
  BY <1>1, <1>4, SameTools DEF QuestionIsBudgeted, FinishedTools, IInv, LearnerIsSound
<1> QED
  BY <1>1, <1>2, <1>5, <1>6, ToolsAreBudgeted DEF QuestionGoesOn

(* A tool has finished, without a result or with one. *)
LEMMA ToolFails ==
    ASSUME IInv, learner.node \in {"tools", "await_rag"}
    PROVE  /\ Failed \in LearnerStates /\ Failed.node \in {"model", "tools"}
           /\ Failed.node = "tools" <=> Failed.pending # 0
           /\ Failed.pending = learner.pending - 1
           /\ Failed.model_calls = learner.model_calls
           /\ Failed.tool_calls = learner.tool_calls
           /\ Failed.succeeded = learner.succeeded /\ Failed.sources = learner.sources
           /\ Failed.retrieval_strategy = learner.retrieval_strategy
           /\ Failed.tavily_search = learner.tavily_search
<1>1. learner \in LearnerStates /\ learner.pending \in 1..ToolCallLimit
  BY ToolsAreBudgeted
<1>2. learner.pending - 1 \in 0..ToolCallLimit
      /\ (learner.pending = 1 <=> learner.pending - 1 = 0)
  BY <1>1, LimitsAssumption
<1> QED
  BY <1>1, <1>2 DEF Failed, LearnerStates

LEMMA ToolSucceeds ==
    ASSUME IInv, learner.node \in {"tools", "await_rag"},
           NEW tool \in build_learner_tools, NEW sources,
           _extract_retrieval_sources(tool, sources) \subseteq 1..(MaxRewrites + 1),
           _extract_retrieval_sources(tool, sources) # {} => tool = RetrievalTool
    PROVE  LET s == Succeeded(tool, sources)
           IN  /\ s \in LearnerStates /\ s.node = Failed.node /\ s.pending = Failed.pending
               /\ s.model_calls = Failed.model_calls /\ s.tool_calls = Failed.tool_calls
               /\ s.retrieval_strategy = Failed.retrieval_strategy
               /\ s.tavily_search = Failed.tavily_search
               /\ s.succeeded = Failed.succeeded \cup {tool}
               /\ s.sources \subseteq Failed.sources \cup (1..(MaxRewrites + 1))
               /\ s.sources # {} => Failed.sources # {} \/ tool = RetrievalTool
<1> DEFINE e == _extract_retrieval_sources(tool, sources)
           f == Failed
<1>1. f \in LearnerStates
  BY ToolFails
<1>2. tool \in Tools
  BY NamedTools, ToolsAreBudgeted DEF build_learner_tools, Tools
<1>3. e \subseteq 1..Web
  BY MaxRewritesAssumption DEF Web
<1>4. Succeeded(tool, sources) = [f EXCEPT !.succeeded = @ \cup {tool}, !.sources = @ \cup e]
  BY DEF Succeeded
<1> HIDE DEF f, e
<1>5. f.succeeded \cup {tool} \in SUBSET Tools /\ f.sources \cup e \in SUBSET (1..Web)
  BY <1>1, <1>2, <1>3 DEF LearnerStates
<1>6. LET s == [f EXCEPT !.succeeded = @ \cup {tool}, !.sources = @ \cup e]
      IN  /\ s \in LearnerStates /\ s.node = f.node /\ s.pending = f.pending
          /\ s.model_calls = f.model_calls /\ s.tool_calls = f.tool_calls
          /\ s.retrieval_strategy = f.retrieval_strategy
          /\ s.tavily_search = f.tavily_search
          /\ s.succeeded = f.succeeded \cup {tool} /\ s.sources = f.sources \cup e
  BY <1>1, <1>5 DEF LearnerStates
<1> QED
  BY <1>4, <1>6 DEF e, f

ToolFinished ==
    \/ learner' = Failed
    \/ \E tool \in build_learner_tools, sources \in SUBSET (0..Web) :
          /\ _extract_retrieval_sources(tool, sources) \subseteq 1..(MaxRewrites + 1)
          /\ _extract_retrieval_sources(tool, sources) # {} => tool = RetrievalTool
          /\ learner' = Succeeded(tool, sources)

LEMMA FinishedIsSound ==
    ASSUME IInv, learner.node \in {"tools", "await_rag"}, ToolFinished
    PROVE  /\ learner' \in LearnerStates /\ learner'.node \in {"model", "tools"}
           /\ learner'.model_calls = learner.model_calls
           /\ learner'.tool_calls - learner'.pending = FinishedTools + 1
           /\ LearnerIsSound'
<1> DEFINE f == Failed
<1>1. /\ f \in LearnerStates /\ f.node \in {"model", "tools"}
      /\ f.node = "tools" <=> f.pending # 0
      /\ f.pending = learner.pending - 1 /\ f.model_calls = learner.model_calls
      /\ f.tool_calls = learner.tool_calls
      /\ f.succeeded = learner.succeeded /\ f.sources = learner.sources
      /\ f.retrieval_strategy = learner.retrieval_strategy
      /\ f.tavily_search = learner.tavily_search
  BY ToolFails
<1> HIDE DEF f
<1>2. /\ learner' \in LearnerStates /\ learner'.node = f.node /\ learner'.pending = f.pending
      /\ learner'.model_calls = f.model_calls /\ learner'.tool_calls = f.tool_calls
      /\ learner'.retrieval_strategy = f.retrieval_strategy
      /\ learner'.tavily_search = f.tavily_search
      /\ f.succeeded \subseteq learner'.succeeded
      /\ learner'.succeeded \subseteq f.succeeded \cup build_learner_tools
      /\ learner'.sources \subseteq f.sources \cup (1..(MaxRewrites + 1))
      /\ learner'.sources # {} => f.sources # {} \/ RetrievalTool \in learner'.succeeded
  <2>1. CASE learner' = Failed
    BY <1>1, <2>1 DEF f
  <2>2. CASE learner' # Failed
    <3>1. PICK tool \in build_learner_tools, sources \in SUBSET (0..Web) :
            /\ _extract_retrieval_sources(tool, sources) \subseteq 1..(MaxRewrites + 1)
            /\ _extract_retrieval_sources(tool, sources) # {} => tool = RetrievalTool
            /\ learner' = Succeeded(tool, sources)
      BY <2>2 DEF ToolFinished
    <3>2. /\ learner' \in LearnerStates /\ learner'.node = f.node
          /\ learner'.pending = f.pending
          /\ learner'.model_calls = f.model_calls /\ learner'.tool_calls = f.tool_calls
          /\ learner'.retrieval_strategy = f.retrieval_strategy
          /\ learner'.tavily_search = f.tavily_search
          /\ learner'.succeeded = f.succeeded \cup {tool}
          /\ learner'.sources \subseteq f.sources \cup (1..(MaxRewrites + 1))
          /\ learner'.sources # {} => f.sources # {} \/ tool = RetrievalTool
      BY <3>1, ToolSucceeds DEF f
    <3> QED
      BY <3>2
  <2> QED
    BY <2>1, <2>2
<1>3. /\ learner.pending \in 1..ToolCallLimit /\ learner.pending <= learner.tool_calls
      /\ learner \in LearnerStates
  BY ToolsAreBudgeted
<1>4. learner'.tool_calls - learner'.pending = FinishedTools + 1
      /\ learner'.pending <= learner'.tool_calls
  BY <1>1, <1>2, <1>3, LearnerFields, LimitsAssumption DEF FinishedTools
<1>5. LearnerIsSound'
  <2>1. _tool_names_for_metadata' = _tool_names_for_metadata /\ RetrievalTool' = RetrievalTool
        /\ build_learner_tools = _tool_names_for_metadata
    BY <1>1, <1>2, <1>3, SameTools, NamedTools
  <2>2. 1..(MaxRewrites + 1) \subseteq Documents
    BY MaxRewritesAssumption DEF Documents
  <2>3. /\ learner.succeeded \subseteq _tool_names_for_metadata
        /\ learner.sources \subseteq Documents
        /\ learner.sources # {} => RetrievalTool \in learner.succeeded
    BY DEF IInv, LearnerIsSound
  <2>4. /\ learner'.succeeded \subseteq _tool_names_for_metadata
        /\ learner'.sources \subseteq Documents
        /\ learner'.sources # {} => RetrievalTool \in learner'.succeeded
    BY <1>1, <1>2, <2>1, <2>2, <2>3
  <2>5. learner'.node \in {"tools", "await_rag"} <=> learner'.pending # 0
    BY <1>1, <1>2
  <2> QED
    BY <1>4, <2>1, <2>4, <2>5 DEF LearnerIsSound
<1> QED
  BY <1>1, <1>2, <1>4, <1>5

LEMMA RagReturnsKeeps == IInv /\ NothingIsStored /\ RagToolReturns => QuestionGoesOn
<1> SUFFICES ASSUME IInv, NothingIsStored, RagToolReturns PROVE QuestionGoesOn
  OBVIOUS
<1>1. learner.node = "await_rag" /\ crag' = NotRunning /\ calls' = calls
  BY DEF RagToolReturns
<1>2. crag \in CRAGState /\ calls \in Nat /\ Remaining(crag) \in Nat
  BY RemainingCalls DEF IInv, CragSound, CragTypeOK
<1>3. ToolFinished
  <2>1. CASE learner' = Failed
    BY <2>1 DEF ToolFinished
  <2>2. CASE learner' # Failed
    <3> DEFINE sources == _sources_from_retrieval_result
    <3>1. learner' = Succeeded(RetrievalTool, sources)
      BY <2>2 DEF RagToolReturns
    <3>2. crag.sources \in 0..(MaxRewrites + 1)
      BY <1>2 DEF CRAGState, Documents
    <3>3. sources \subseteq 1..(MaxRewrites + 1)
      BY <3>2, MaxRewritesAssumption DEF _sources_from_retrieval_result
    <3>4. sources \in SUBSET (0..Web)
      BY <3>3, MaxRewritesAssumption DEF Web
    <3>5. RetrievalTool \in RetrievalTools /\ RetrievalTool \in build_learner_tools
      BY <1>1, ToolsAreBudgeted, NamedTools DEF build_learner_tools
    <3>6. _extract_retrieval_sources(RetrievalTool, sources) = sources
      BY <3>5 DEF _extract_retrieval_sources
    <3> HIDE DEF sources
    <3> QED
      BY <3>1, <3>3, <3>4, <3>5, <3>6 DEF ToolFinished
  <2> QED
    BY <2>1, <2>2
<1>4. /\ learner' \in LearnerStates /\ learner'.node \in {"model", "tools"}
      /\ learner'.model_calls = learner.model_calls
      /\ learner'.tool_calls - learner'.pending = FinishedTools + 1 /\ LearnerIsSound'
  BY <1>1, <1>3, FinishedIsSound
<1>5. calls <= learner.model_calls + (FinishedTools + 1) * CragCalls
  BY <1>1, <1>2, ToolsAreBudgeted, CragCallsAreANumber
<1>6. QuestionIsBudgeted'
  BY <1>1, <1>4, <1>5, ToolsAreBudgeted, CragCallsAreANumber
     DEF QuestionIsBudgeted, FinishedTools
<1>7. calls' <= LearnerCalls
  BY <1>1 DEF IInv, ModelCallsAreBounded
<1> QED
  BY <1>1, <1>2, <1>4, <1>6, <1>7, ToolsAreBudgeted, NoGraphIsSound DEF QuestionGoesOn

LEMMA TavilyKeeps == IInv /\ NothingIsStored /\ run_tavily_tool => QuestionGoesOn
<1> SUFFICES ASSUME IInv, NothingIsStored, run_tavily_tool PROVE QuestionGoesOn
  OBVIOUS
<1>1. /\ learner.node = "tools" /\ "tavily_search_tool" \in build_learner_tools
      /\ crag' = crag /\ calls' \in {calls, calls + 1}
  BY DEF run_tavily_tool, Calls, CallsModel
<1>2. crag = NotRunning /\ calls' \in Nat /\ node = "idle"
  BY <1>1, ToolsAreBudgeted DEF IInv, OneAtATime, CragAwaited, AgentNodes, AgentOf
<1>3. ToolFinished
  <2>1. CASE learner' = Failed
    BY <2>1 DEF ToolFinished
  <2>2. CASE learner' # Failed
    <3>1. PICK pages \in {{}, {Web}} : learner' = Succeeded("tavily_search_tool", pages)
      BY <2>2 DEF run_tavily_tool
    <3>2. _extract_retrieval_sources("tavily_search_tool", pages) = {}
      BY DEF _extract_retrieval_sources, RetrievalTools
    <3>3. pages \in SUBSET (0..Web)
      BY MaxRewritesAssumption DEF Web
    <3> QED
      BY <1>1, <3>1, <3>2, <3>3 DEF ToolFinished
  <2> QED
    BY <2>1, <2>2
<1>4. /\ learner' \in LearnerStates /\ learner'.node \in {"model", "tools"}
      /\ learner'.model_calls = learner.model_calls
      /\ learner'.tool_calls - learner'.pending = FinishedTools + 1 /\ LearnerIsSound'
  BY <1>1, <1>3, FinishedIsSound
<1>5. calls' <= learner.model_calls + (FinishedTools + 1) * CragCalls
  <2>1. calls <= learner.model_calls + FinishedTools * CragCalls + 0
    BY <1>1, ToolsAreBudgeted
  <2> QED
    BY <1>1, <1>2, <2>1, ToolsAreBudgeted, CragCallsAreANumber
<1>6. QuestionIsBudgeted'
  BY <1>1, <1>4, <1>5, ToolsAreBudgeted, CragCallsAreANumber
     DEF QuestionIsBudgeted, FinishedTools
<1>7. calls' <= LearnerCalls
  BY <1>1, <1>2, <1>5, ToolsAreBudgeted, QuestionsStayWithinTheirBudget
<1> QED
  BY <1>1, <1>2, <1>4, <1>6, <1>7, NoGraphIsSound DEF QuestionGoesOn

LEMMA QuestionStepKeeps ==
    IInv /\ (ask_simulation_learner_srvc \/ AnswerQuestion) => IInv'
BY QuestionKeeps, AskKeeps, LearnerModelKeeps, ModelLimitKeeps, RagToolKeeps,
   LearnerAwaitsKeeps, RagReturnsKeeps, TavilyKeeps, RespondKeeps
   DEF AnswerQuestion, LearnerNext

-----------------------------------------------------------------------------
(* Agents: the graph around them waits, and they spend what they were      *)
(* given.                                                                  *)
LEMMA AgentNodesAre ==
    /\ AgentNodes = {"user_proxy", "classify_intent", "call_counterpart",
                     "rolling_evaluator", "coach", "final_evaluator"}
    /\ AgentOf["user_proxy"] = "user_proxy"
    /\ AgentOf["classify_intent"] = "intent_classifier"
    /\ AgentOf["call_counterpart"] = "counterpart"
    /\ AgentOf["rolling_evaluator"] = "evaluator"
    /\ AgentOf["coach"] = "coach"
    /\ AgentOf["final_evaluator"] = "evaluator"
BY DEF AgentNodes, AgentOf

(* While a turn is under way the stored row waits for it. *)
LEMMA RowWaits ==
    ASSUME IInv, node # "idle"
    PROVE  /\ turns \in Nat /\ turns \in 0..MaxTurns /\ ThisTurn \in TurnNumbers
           /\ ThisTurn \in Nat /\ ThisTurn # 0
           /\ learner.node = "idle" /\ simulation.status \in {"active", "paused"}
           /\ Stored \in NegotiationGraphState /\ negotiation \in NegotiationGraphState
           /\ Stored.turn_count = turns
           /\ Progress /\ LedgersProgress /\ Routed
<1>1. /\ simulation.status # "completed" /\ turns = Stored.turn_count
      /\ learner.node = "idle" /\ Progress /\ LedgersProgress /\ Routed
  BY DEF IInv, OneAtATime, RowIsSettled, TurnsAreWhole, TurnIsUnderWay
<1>2. /\ simulation.status \in {"active", "paused", "completed"}
      /\ Stored \in NegotiationGraphState /\ negotiation \in NegotiationGraphState
  BY DEF IInv, TypeOK, Stored
<1>3. Stored.turn_count \in 0..MaxTurns
  BY <1>2 DEF NegotiationGraphState
<1> QED
  BY <1>1, <1>2, <1>3, MaxTurnsAssumption DEF ThisTurn, TurnNumbers

LEMMA AgentFields ==
    ASSUME IInv, node \in AgentNodes
    PROVE  /\ node # "idle" /\ agent \in AgentStates /\ agent.name = AgentOf[node]
           /\ agent.name \in Agents /\ agent.retry_count \in 0..1
           /\ agent.node \in {"call_rag", "await_rag", "generate", "repair", "fallback",
                              "finalize"}
           /\ agent.evidence_ledger \in [Agents -> SUBSET TurnNumbers]
BY AgentNodesAre DEF IInv, TypeOK, AgentStates

LEMMA AgentLedgers ==
    ASSUME IInv, node \in AgentNodes
    PROVE  /\ update_agent_ledger \in [Agents -> SUBSET TurnNumbers]
           /\ \A a \in Agents \ {agent.name} :
                 update_agent_ledger[a] = negotiation.evidence_ledger[a]
           /\ update_agent_ledger[agent.name]
                 = negotiation.evidence_ledger[agent.name] \cup {ThisTurn}
<1>1. ThisTurn \in TurnNumbers
  BY AgentFields, RowWaits
<1> QED
  BY <1>1, AgentFields DEF update_agent_ledger, IInv, AgentIsSound

LEMMA BudgetsAreNumbers ==
    ASSUME IInv
    PROVE  /\ AgentAhead \in Nat /\ calls \in Nat /\ Remaining(crag) \in Nat
           /\ \A n : AgentsAfter(n) \in Nat
           /\ TurnCalls \in Nat
<1>1. Remaining(crag) \in Nat /\ calls \in Nat
  BY RemainingCalls DEF IInv, CragSound, CragTypeOK
<1> QED
  BY <1>1, CragCallsAreANumber DEF AgentAhead, AgentsAfter, TurnCalls

AgentGoesOn ==
    /\ node \in AgentNodes /\ OnlyTheAgentMoves
    /\ agent' \in AgentStates /\ agent'.name = agent.name
    /\ CragSound'
    /\ agent'.node # "await_rag" => crag' = NotRunning
    /\ AgentIsSound'
    /\ calls' + AgentAhead' <= calls + AgentAhead

LEMMA AgentKeeps == IInv /\ AgentGoesOn => IInv'
<1> SUFFICES ASSUME IInv, AgentGoesOn PROVE IInv'
  OBVIOUS
<1> USE DEF AgentGoesOn
<1>1. /\ UNCHANGED <<learner, simulation, negotiation, node, turns>>
      /\ node # "idle" /\ node \in AgentNodes /\ learner.node = "idle"
  BY AgentFields, RowWaits DEF OnlyTheAgentMoves
<1>2. TypeOK' /\ CragSound'
  BY <1>1, AgentFields DEF IInv, TypeOK, CragSound
<1>3. OneAtATime'
  BY <1>1 DEF IInv, OneAtATime, CragAwaited, Stored
<1>4. LearnerIsSound' /\ QuestionIsBudgeted'
  <2>1. RetrievalTool' = RetrievalTool /\ _tool_names_for_metadata' = _tool_names_for_metadata
    BY <1>1, SameTools
  <2> QED
    BY <1>1, <2>1 DEF IInv, LearnerIsSound, QuestionIsBudgeted
<1>5. calls' \in Nat /\ AgentAhead' \in Nat
  <2>1. Remaining(crag') \in Nat /\ calls' \in Nat
    BY <1>2, RemainingCalls DEF CragSound, CragTypeOK
  <2> QED
    BY <2>1, CragCallsAreANumber DEF AgentAhead
<1>6. TurnIsBudgeted' /\ calls' <= TurnCalls
  <2>1. calls + AgentAhead + AgentsAfter(node) <= TurnCalls
    BY <1>1 DEF IInv, TurnIsBudgeted
  <2>2. calls' + AgentAhead' + AgentsAfter(node) <= TurnCalls
    BY <1>5, <2>1, BudgetsAreNumbers
  <2> QED
    BY <1>1, <1>5, <2>2, BudgetsAreNumbers DEF TurnIsBudgeted
<1>7. ModelCallsAreBounded'
  BY <1>1, <1>6 DEF ModelCallsAreBounded
<1>8. TurnIsUnderWay'
  BY <1>1 DEF IInv, TurnIsUnderWay, Progress, LedgersProgress, Routed, Stamp, Counted,
     Responded, Evaluated, Advised, FinallyEvaluated, Another, ThisTurn
<1>9. RowIsSettled'
  BY <1>1 DEF IInv, RowIsSettled, TurnsAreWhole, LedgersHoldEveryTurn, Stored
<1> QED
  BY <1>2, <1>3, <1>4, <1>6, <1>7, <1>8, <1>9 DEF IInv

(* An agent that has noted its step, at the node it goes to. *)
LEMMA AgentNotes ==
    ASSUME IInv, node \in AgentNodes, OnlyTheAgentMoves,
           agent' \in AgentStates, agent'.name = agent.name,
           agent'.evidence_ledger \in {agent.evidence_ledger, update_agent_ledger},
           agent'.node \in {"call_rag", "await_rag"} => agent.name \in {"coach", "evaluator"},
           agent'.node \in {"call_rag", "await_rag", "generate", "repair"} =>
               agent'.retry_count = 0,
           agent'.node = "repair" => agent.name # "intent_classifier"
    PROVE  AgentIsSound'
<1>1. UNCHANGED <<negotiation, node, turns>>
  BY DEF OnlyTheAgentMoves
<1>2. /\ \A a \in Agents \ {agent.name} :
            agent'.evidence_ledger[a] = negotiation.evidence_ledger[a]
      /\ agent'.evidence_ledger[agent.name] \cup {ThisTurn}
            = negotiation.evidence_ledger[agent.name] \cup {ThisTurn}
  BY AgentLedgers DEF IInv, AgentIsSound
<1> QED
  BY <1>1, <1>2 DEF AgentIsSound, ThisTurn

LEMMA CallRagKeeps ==
    ASSUME IInv, CallRag
    PROVE  AgentGoesOn
<1>1. /\ node \in AgentNodes /\ agent.node = "call_rag" /\ OnlyTheAgentMoves
      /\ agent' = [agent EXCEPT !.node = "await_rag"] /\ calls' = calls
  BY DEF CallRag, At
<1>2. /\ agent' \in AgentStates /\ agent'.node = "await_rag" /\ agent'.name = agent.name
      /\ agent'.evidence_ledger = agent.evidence_ledger
      /\ agent'.retry_count = agent.retry_count
  BY <1>1, AgentFields DEF AgentStates
<1>3. CragSound' /\ Remaining(crag') = CragCalls
  BY <1>1, BudgetsAreNumbers, InvokedIsSound DEF CallRag
<1>4. AgentIsSound'
  BY <1>1, <1>2, AgentNotes DEF IInv, AgentIsSound
<1>5. calls' + AgentAhead' <= calls + AgentAhead
  <2>1. AgentAhead = CragCalls + 2
    BY <1>1 DEF AgentAhead
  <2>2. AgentAhead' = CragCalls + 2
    BY <1>1, <1>2, <1>3 DEF AgentAhead, OnlyTheAgentMoves
  <2> QED
    BY <1>1, <2>1, <2>2, BudgetsAreNumbers
<1> QED
  BY <1>1, <1>2, <1>3, <1>4, <1>5 DEF AgentGoesOn

LEMMA RunCragKeeps ==
    ASSUME IInv, RunCrag
    PROVE  AgentGoesOn
<1>1. /\ node \in AgentNodes /\ agent.node = "await_rag" /\ OnlyTheAgentMoves
      /\ agent' = agent
  BY DEF RunCrag, At
<1>2. CragSound' /\ WithinBudget
  BY CragStep DEF RunCrag, IInv
<1>3. AgentIsSound'
  BY <1>1, AgentFields, AgentNotes DEF IInv, AgentIsSound
<1>4. calls' + AgentAhead' <= calls + AgentAhead
  <2>1. /\ Remaining(crag) \in Nat /\ Remaining(crag') \in Nat /\ calls \in Nat /\ calls' \in Nat
    BY <1>2, RemainingCalls DEF IInv, CragSound, CragTypeOK
  <2>2. AgentAhead = Remaining(crag) + 2 /\ AgentAhead' = Remaining(crag') + 2
    BY <1>1 DEF AgentAhead, OnlyTheAgentMoves
  <2> QED
    BY <1>2, <2>1, <2>2 DEF WithinBudget
<1> QED
  BY <1>1, <1>2, <1>3, <1>4, AgentFields DEF AgentGoesOn

LEMMA RagIsLeftKeeps ==
    ASSUME IInv, SkipRag \/ node_call_rag
    PROVE  AgentGoesOn
<1>1. /\ node \in AgentNodes /\ agent.node \in {"call_rag", "await_rag"} /\ OnlyTheAgentMoves
      /\ agent' = [agent EXCEPT !.node = "generate", !.evidence_ledger = update_agent_ledger]
      /\ calls' = calls
  BY DEF SkipRag, node_call_rag, At
<1>2. crag' = NotRunning
  <2>1. CASE SkipRag
    BY <1>1, <2>1, AgentFields, RowWaits DEF SkipRag, At, IInv, OneAtATime, CragAwaited
  <2>2. CASE node_call_rag
    BY <2>2 DEF node_call_rag
  <2> QED
    BY <2>1, <2>2
<1>3. CragSound'
  BY <1>1, <1>2, BudgetsAreNumbers, NoGraphIsSound
<1>4. /\ agent' \in AgentStates /\ agent'.node = "generate" /\ agent'.name = agent.name
      /\ agent'.evidence_ledger = update_agent_ledger
      /\ agent'.retry_count = agent.retry_count
  BY <1>1, AgentFields, AgentLedgers DEF AgentStates
<1>5. AgentIsSound'
  BY <1>1, <1>4, AgentNotes DEF IInv, AgentIsSound
<1>6. calls' + AgentAhead' <= calls + AgentAhead
  <2>1. AgentAhead \in Nat /\ AgentAhead >= 2
    BY <1>1, BudgetsAreNumbers, CragCallsAreANumber DEF AgentAhead
  <2>2. AgentAhead' \in {1, 2}
    BY <1>1, <1>4 DEF AgentAhead, OnlyTheAgentMoves
  <2> QED
    BY <1>1, <2>1, <2>2, BudgetsAreNumbers
<1> QED
  BY <1>1, <1>2, <1>3, <1>4, <1>5, <1>6 DEF AgentGoesOn

(* A model call, of a first attempt or its repair, or the answer without one. *)
LEMMA AnswerKeeps ==
    ASSUME IInv, node \in AgentNodes, OnlyTheAgentMoves, crag' = crag,
           agent.node \in {"generate", "repair", "fallback"},
           NEW response \in {"none", "model", "fallback"},
           NEW next \in {"repair", "fallback", "finalize"},
           \/ agent' = [Answered(response) EXCEPT !.node = next]
           \/ /\ agent.node = "repair"
              /\ agent' = [Answered(response) EXCEPT !.node = next, !.retry_count = @ + 1],
           next = "repair" => agent.node = "generate" /\ agent.name # "intent_classifier",
           IF agent.node = "fallback" THEN UNCHANGED calls ELSE CallsModel
    PROVE  AgentGoesOn
<1> DEFINE a == Answered(response)
<1>1. /\ a \in AgentStates /\ a.name = agent.name /\ a.retry_count = agent.retry_count
      /\ a.evidence_ledger = update_agent_ledger
  BY AgentFields, AgentLedgers DEF Answered, AgentStates
<1>2. \/ agent' = [a EXCEPT !.node = next]
      \/ agent.node = "repair" /\ agent' = [a EXCEPT !.node = next, !.retry_count = @ + 1]
  OBVIOUS
<1> HIDE DEF a
<1>3. agent.node \in {"generate", "repair"} => agent.retry_count = 0
  BY DEF IInv, AgentIsSound
<1>4. /\ agent' \in AgentStates /\ agent'.name = agent.name /\ agent'.node = next
      /\ agent'.evidence_ledger = update_agent_ledger
      /\ next = "repair" => agent'.retry_count = 0
  <2>1. CASE agent' = [a EXCEPT !.node = next]
    BY <1>1, <1>3, <2>1 DEF AgentStates
  <2>2. CASE agent.node = "repair" /\ agent' = [a EXCEPT !.node = next, !.retry_count = @ + 1]
    <3>1. a.retry_count + 1 \in 0..1
      BY <1>1, <1>3, <2>2
    <3> QED
      BY <1>1, <2>2, <3>1 DEF AgentStates
  <2> QED
    BY <1>2, <2>1, <2>2
<1>5. crag' = NotRunning
  BY AgentFields, RowWaits DEF IInv, OneAtATime, CragAwaited
<1>6. CragSound'
  BY <1>5, BudgetsAreNumbers, NoGraphIsSound DEF CallsModel
<1>7. AgentIsSound'
  BY <1>4, AgentNotes
<1>8. calls' + AgentAhead' <= calls + AgentAhead
  <2>1. AgentAhead' = IF next = "repair" THEN 1 ELSE 0
    BY <1>4 DEF AgentAhead, OnlyTheAgentMoves
  <2>2. /\ agent.node = "fallback" => AgentAhead = 0
        /\ agent.node = "repair" => AgentAhead = 1
        /\ agent.node = "generate" =>
              AgentAhead = IF agent.name = "intent_classifier" THEN 1 ELSE 2
    BY DEF AgentAhead
  <2> QED
    BY <2>1, <2>2, BudgetsAreNumbers DEF CallsModel
<1> QED
  BY <1>4, <1>5, <1>6, <1>7, <1>8 DEF AgentGoesOn

LEMMA GenerateSteps ==
    ASSUME IInv, At("generate"), NEW response \in {"none", "model"},
           \/ agent' = [Answered(response) EXCEPT !.node = decide_after_generate(response)]
              /\ agent.name # "intent_classifier"
           \/ agent' = [Answered(response) EXCEPT !.node = "finalize"],
           CallsModel, UNCHANGED crag, OnlyTheAgentMoves
    PROVE  AgentGoesOn
<1>1. node \in AgentNodes /\ agent.node = "generate" /\ agent.retry_count = 0
  BY DEF At, IInv, AgentIsSound
<1>2. decide_after_generate(response) \in {"repair", "finalize"}
  BY <1>1 DEF decide_after_generate
<1> QED
  BY <1>1, <1>2, AnswerKeeps

LEMMA RepairSteps ==
    ASSUME IInv, NEW name, Repairs(name)
    PROVE  AgentGoesOn
<1>1. /\ node \in AgentNodes /\ agent.node = "repair" /\ CallsModel /\ UNCHANGED crag
      /\ OnlyTheAgentMoves
  BY DEF Repairs, At
<1>2. PICK response \in {"none", "model"} :
          agent' = [Answered(response) EXCEPT !.node = decide_after_repair(response),
                                              !.retry_count = @ + 1]
  BY DEF Repairs
<1>3. decide_after_repair(response) \in {"fallback", "finalize"}
  BY DEF decide_after_repair
<1> QED
  BY <1>1, <1>2, <1>3, AnswerKeeps

LEMMA FallbackSteps ==
    ASSUME IInv, NEW name, FallsBack(name)
    PROVE  AgentGoesOn
<1>1. /\ node \in AgentNodes /\ agent.node = "fallback" /\ UNCHANGED <<crag, calls>>
      /\ OnlyTheAgentMoves /\ agent' = [Answered("fallback") EXCEPT !.node = "finalize"]
  BY DEF FallsBack, At
<1> QED
  BY <1>1, AnswerKeeps

LEMMA AgentStepKeeps == IInv /\ AgentNext => IInv'
<1> SUFFICES ASSUME IInv, AgentNext PROVE AgentGoesOn
  BY AgentKeeps
<1>1. CASE coach_call_rag \/ evaluator_call_rag \/ RunCrag
  BY <1>1, CallRagKeeps, RunCragKeeps, RagIsLeftKeeps DEF coach_call_rag, evaluator_call_rag
<1>2. CASE node_classify_intent
  BY <1>2, GenerateSteps DEF node_classify_intent, Generates
<1>3. CASE \/ node_generate_user_proxy_response \/ node_generate_counterpart_response
           \/ node_generate_coach_advice \/ node_generate_evaluator_response
  BY <1>3, GenerateSteps DEF node_generate_user_proxy_response, Generates,
     node_generate_counterpart_response, node_generate_coach_advice,
     node_generate_evaluator_response
<1>4. CASE \/ node_repair_user_proxy_response \/ node_repair_counterpart_response
           \/ node_repair_coach_advice \/ node_repair_evaluator_response
  BY <1>4, RepairSteps DEF node_repair_user_proxy_response,
     node_repair_counterpart_response, node_repair_coach_advice,
     node_repair_evaluator_response
<1>5. CASE \/ node_fallback_user_proxy_response \/ node_fallback_counterpart_response
           \/ node_fallback_coach_advice \/ node_fallback_evaluator_response
  BY <1>5, FallbackSteps DEF node_fallback_user_proxy_response,
     node_fallback_counterpart_response, node_fallback_coach_advice,
     node_fallback_evaluator_response
<1> QED
  BY <1>1, <1>2, <1>3, <1>4, <1>5 DEF AgentNext

-----------------------------------------------------------------------------
(* The graph: a node hands the turn to the next, whose agent starts from   *)
(* the ledger it is given, and the budget of the agents that are left.     *)
StartsWith(n) ==
    IF n \in {"rolling_evaluator", "coach", "final_evaluator"} THEN CragCalls + 2
    ELSE IF n \in {"user_proxy", "call_counterpart"} THEN 2
    ELSE IF n = "classify_intent" THEN 1 ELSE 0

TurnGoesOn ==
    /\ UNCHANGED <<crag, learner, simulation, turns>>
    /\ crag = NotRunning /\ learner.node = "idle"
    /\ Stored.phase # "ended" /\ simulation.status # "completed"
    /\ node' \in Nodes \ {"idle"}
    /\ negotiation' \in NegotiationGraphState
    /\ agent' = IF node' \in AgentNodes THEN Started(AgentOf[node'], negotiation') ELSE NoAgent
    /\ calls' \in Nat /\ calls' + StartsWith(node') + AgentsAfter(node') <= TurnCalls
    /\ Progress' /\ LedgersProgress' /\ Routed'

LEMMA StartedAgent ==
    ASSUME NEW n \in AgentNodes, NEW state \in NegotiationGraphState
    PROVE  LET a == Started(AgentOf[n], state)
           IN  /\ a \in AgentStates /\ a.name = AgentOf[n] /\ a.retry_count = 0
               /\ a.evidence_ledger = state.evidence_ledger
               /\ a.node = IF n \in {"rolling_evaluator", "coach", "final_evaluator"}
                           THEN "call_rag" ELSE "generate"
<1>1. state.evidence_ledger \in [Agents -> SUBSET TurnNumbers]
  BY DEF NegotiationGraphState
<1>2. AgentOf[n] \in Agents
  BY AgentNodesAre DEF Agents, LedgerAgents
<1>3. AgentOf[n] \in {"coach", "evaluator"}
         <=> n \in {"rolling_evaluator", "coach", "final_evaluator"}
  BY AgentNodesAre
<1> QED
  BY <1>1, <1>2, <1>3 DEF Started, Projected, AgentStates

LEMMA TurnKeeps == IInv /\ TurnGoesOn => IInv'
<1> SUFFICES ASSUME IInv, TurnGoesOn PROVE IInv'
  OBVIOUS
<1> USE DEF TurnGoesOn
<1>1. /\ UNCHANGED <<crag, learner, simulation, turns>> /\ node' # "idle"
      /\ node' \in Nodes /\ crag = NotRunning
  OBVIOUS
<1>2. ASSUME node' \in AgentNodes
      PROVE  /\ agent' \in AgentStates /\ agent'.name = AgentOf[node']
             /\ agent'.retry_count = 0
             /\ agent'.evidence_ledger = negotiation'.evidence_ledger
             /\ agent'.node = IF node' \in {"rolling_evaluator", "coach", "final_evaluator"}
                              THEN "call_rag" ELSE "generate"
  BY <1>2, StartedAgent
<1>3. TypeOK' /\ CragSound'
  <2>1. CragSound'
    BY <1>1, SameGraphIsSound DEF IInv
  <2>2. node' \notin AgentNodes => agent' = NoAgent
    OBVIOUS
  <2> QED
    BY <1>1, <1>2, <2>1, <2>2 DEF IInv, TypeOK, CragSound
<1>4. OneAtATime'
  BY <1>1 DEF OneAtATime, Stored
<1>5. LearnerIsSound' /\ QuestionIsBudgeted'
  <2>1. RetrievalTool' = RetrievalTool /\ _tool_names_for_metadata' = _tool_names_for_metadata
    BY <1>1, SameTools
  <2> QED
    BY <1>1, <2>1 DEF IInv, LearnerIsSound, QuestionIsBudgeted
<1>6. AgentIsSound'
  <2> SUFFICES ASSUME node' \in AgentNodes PROVE AgentIsSound'
    BY DEF AgentIsSound
  <2>1. agent'.node \in {"call_rag", "await_rag"} => agent'.name \in {"coach", "evaluator"}
    BY <1>2, AgentNodesAre
  <2> QED
    BY <1>2, <2>1 DEF AgentIsSound
<1>7. AgentAhead' = StartsWith(node')
  <2>1. CASE node' \notin AgentNodes
    BY <2>1, AgentNodesAre DEF AgentAhead, StartsWith
  <2>2. CASE node' \in AgentNodes
    BY <1>2, <2>2, AgentNodesAre DEF AgentAhead, StartsWith
  <2> QED
    BY <2>1, <2>2
<1>8. TurnIsBudgeted' /\ calls' <= TurnCalls
  <2>1. StartsWith(node') \in Nat /\ AgentsAfter(node') \in Nat /\ TurnCalls \in Nat
    BY BudgetsAreNumbers, CragCallsAreANumber DEF StartsWith
  <2> QED
    BY <1>7, <2>1 DEF TurnIsBudgeted
<1>9. ModelCallsAreBounded'
  BY <1>1, <1>8 DEF ModelCallsAreBounded
<1>10. TurnIsUnderWay'
  BY DEF TurnIsUnderWay
<1>11. RowIsSettled'
  BY <1>1 DEF IInv, RowIsSettled, TurnsAreWhole, LedgersHoldEveryTurn, Stored
<1> QED
  BY <1>3, <1>4, <1>5, <1>6, <1>8, <1>9, <1>10, <1>11 DEF IInv

(* What is left is worth what the graph was given before, from one node to *)
(* any of those it may lead to.                                            *)
LEMMA BudgetIsPassedOn ==
    ASSUME IInv, node # "idle", node \notin AgentNodes \/ agent.node = "finalize", calls' = calls,
           NEW next, StartsWith(next) + AgentsAfter(next) <= AgentsAfter(node)
    PROVE  /\ crag = NotRunning
           /\ calls' \in Nat /\ calls' + StartsWith(next) + AgentsAfter(next) <= TurnCalls
<1>1. crag = NotRunning
  BY RowWaits DEF IInv, OneAtATime, CragAwaited
<1>2. AgentAhead = 0
  BY DEF AgentAhead
<1>3. calls + 0 + AgentsAfter(node) <= TurnCalls
  BY <1>2 DEF IInv, TurnIsBudgeted
<1>4. StartsWith(next) \in Nat
  BY CragCallsAreANumber DEF StartsWith
<1> QED
  BY <1>1, <1>3, <1>4, BudgetsAreNumbers

LEMMA NodesPassOn ==
    /\ \A n \in {"prepare_final_evaluation", "call_counterpart", "classify_intent"} :
          StartsWith(n) + AgentsAfter(n) <= AgentsAfter("prepare_context")
    /\ \A n \in {"prepare_final_evaluation", "call_counterpart"} :
          StartsWith(n) + AgentsAfter(n) <= AgentsAfter("classify_intent")
    /\ StartsWith("prepare_context") + AgentsAfter("prepare_context")
          <= AgentsAfter("user_proxy")
    /\ StartsWith("complete_counterpart_turn") + AgentsAfter("complete_counterpart_turn")
          <= AgentsAfter("call_counterpart")
    /\ StartsWith("rolling_evaluator") + AgentsAfter("rolling_evaluator")
          <= AgentsAfter("complete_counterpart_turn")
    /\ StartsWith("coach") + AgentsAfter("coach") <= AgentsAfter("rolling_evaluator")
    /\ StartsWith("pause_for_user") + AgentsAfter("pause_for_user") <= AgentsAfter("coach")
    /\ StartsWith("final_evaluator") + AgentsAfter("final_evaluator")
          <= AgentsAfter("prepare_final_evaluation")
    /\ StartsWith("finalize") + AgentsAfter("finalize") <= AgentsAfter("final_evaluator")
    /\ StartsWith("store") + AgentsAfter("store") <= AgentsAfter("pause_for_user")
    /\ StartsWith("store") + AgentsAfter("store") <= AgentsAfter("finalize")
<1>1. CragCalls \in Nat
  BY CragCallsAreANumber
<1>2. /\ AgentsAfter("user_proxy") = 2 * CragCalls + 7
      /\ AgentsAfter("prepare_context") = 2 * CragCalls + 7
      /\ AgentsAfter("classify_intent") = 2 * CragCalls + 6
      /\ AgentsAfter("call_counterpart") = 2 * CragCalls + 4
      /\ AgentsAfter("complete_counterpart_turn") = 2 * CragCalls + 4
      /\ AgentsAfter("rolling_evaluator") = CragCalls + 2
      /\ AgentsAfter("prepare_final_evaluation") = CragCalls + 2
      /\ \A n \in {"coach", "pause_for_user", "final_evaluator", "finalize", "store"} :
            AgentsAfter(n) = 0
  BY DEF AgentsAfter
<1>3. /\ \A n \in {"rolling_evaluator", "coach", "final_evaluator"} :
            StartsWith(n) = CragCalls + 2
      /\ StartsWith("call_counterpart") = 2 /\ StartsWith("classify_intent") = 1
      /\ \A n \in {"prepare_context", "prepare_final_evaluation", "complete_counterpart_turn",
                   "pause_for_user", "finalize", "store"} : StartsWith(n) = 0
  BY DEF StartsWith
<1> QED
  BY <1>1, <1>2, <1>3

(* A node of the graph that leads on: what the turn rests on meanwhile.    *)
LEMMA GoesKeeps ==
    ASSUME IInv, NEW next \in Nodes \ {"idle"}, NEW state \in NegotiationGraphState,
           Goes(next, state),
           node # "idle", node \notin AgentNodes \/ agent.node = "finalize",
           StartsWith(next) + AgentsAfter(next) <= AgentsAfter(node),
           Progress', LedgersProgress', Routed'
    PROVE  TurnGoesOn
<1>1. /\ UNCHANGED <<crag, calls, learner, simulation, turns>>
      /\ node' = next /\ negotiation' = state
      /\ agent' = IF node' \in AgentNodes THEN Started(AgentOf[node'], negotiation') ELSE NoAgent
  BY DEF Goes
<1>2. crag = NotRunning /\ calls' \in Nat
      /\ calls' + StartsWith(node') + AgentsAfter(node') <= TurnCalls
  BY <1>1, BudgetIsPassedOn
<1>3. learner.node = "idle" /\ Stored.phase # "ended" /\ simulation.status # "completed"
  BY RowWaits DEF IInv, OneAtATime
<1> QED
  BY <1>1, <1>2, <1>3 DEF TurnGoesOn

LEMMA FinishedAgent ==
    ASSUME IInv, NEW n \in AgentNodes, Finalizes(n)
    PROVE  /\ node = n /\ node \in AgentNodes /\ node # "idle" /\ agent.node = "finalize"
           /\ Noted \in NegotiationGraphState
           /\ Noted = [negotiation EXCEPT !.evidence_ledger = update_agent_ledger]
           /\ Noted.evidence_ledger = update_agent_ledger
           /\ \A a \in Agents \ {AgentOf[n]} :
                 update_agent_ledger[a] = negotiation.evidence_ledger[a]
           /\ update_agent_ledger[AgentOf[n]]
                 = negotiation.evidence_ledger[AgentOf[n]] \cup {ThisTurn}
<1>1. node = n /\ node \in AgentNodes /\ agent.node = "finalize"
  BY DEF Finalizes
<1>2. /\ node # "idle" /\ agent.name = AgentOf[n]
      /\ negotiation \in NegotiationGraphState
  BY <1>1, AgentFields, RowWaits
<1>3. update_agent_ledger \in [Agents -> SUBSET TurnNumbers]
  BY <1>1, AgentLedgers
<1> DEFINE l == update_agent_ledger
<1>4. /\ \A a \in Agents \ {AgentOf[n]} : l[a] = negotiation.evidence_ledger[a]
      /\ l[AgentOf[n]] = negotiation.evidence_ledger[AgentOf[n]] \cup {ThisTurn}
  BY <1>1, <1>2, AgentLedgers
<1>5. l \in [Agents -> SUBSET TurnNumbers] /\ Noted = [negotiation EXCEPT !.evidence_ledger = l]
  BY <1>3 DEF Noted
<1> HIDE DEF l
<1>6. Noted \in NegotiationGraphState /\ Noted.evidence_ledger = l
  BY <1>2, <1>5 DEF NegotiationGraphState
<1> QED
  BY <1>1, <1>2, <1>4, <1>5, <1>6 DEF l

(* What a step keeps of the state of the graph, but for the fields named.  *)
LEMMA LedgersAre == {"evaluator", "counterpart", "coach", "intent_classifier", "user_proxy"} = Agents
BY DEF Agents, LedgerAgents

LEMMA OneMoreTurn == \A t \in Nat : /\ (1..t) \cup {t + 1} = 1..(t + 1)
                                    /\ 1..t \subseteq 1..(t + 1) /\ t + 1 \in 1..(t + 1)
OBVIOUS

LEMMA PrepareKeeps == IInv /\ node_prepare_orchestrator_context => TurnGoesOn
<1> SUFFICES ASSUME IInv, node_prepare_orchestrator_context PROVE TurnGoesOn
  OBVIOUS
<1> DEFINE state == Prepared
           next == route_after_prepare(state)
<1>1. node = "prepare_context" /\ Goes(next, state)
  BY DEF node_prepare_orchestrator_context
<1>2. /\ turns \in 0..MaxTurns /\ negotiation \in NegotiationGraphState
      /\ Progress /\ LedgersProgress /\ Routed
  BY <1>1, RowWaits
<1>3. /\ state \in NegotiationGraphState
      /\ state.turn_count = negotiation.turn_count /\ state.response = negotiation.response
      /\ state.evaluation = negotiation.evaluation
      /\ state.final_evaluation = negotiation.final_evaluation
      /\ state.coach_advice = negotiation.coach_advice
      /\ state.evidence_ledger = negotiation.evidence_ledger
      /\ state.phase = negotiation.phase
      /\ state.requested_action = negotiation.requested_action
      /\ state.intent_classification = "none"
  BY <1>2 DEF Prepared, NegotiationGraphState
<1> HIDE DEF state
<1>4. negotiation.turn_count = turns
  BY <1>1, <1>2 DEF Progress, Stamp, Counted
<1>5. \/ next = "prepare_final_evaluation"
         /\ (turns = MaxTurns \/ state.requested_action = "end")
      \/ next = "call_counterpart" /\ turns < MaxTurns
      \/ next = "classify_intent" /\ turns < MaxTurns /\ state.requested_action # "end"
  BY <1>2, <1>3, <1>4, MaxTurnsAssumption DEF route_after_prepare, turn_limit_reached
<1> HIDE DEF next
<1>6. node' = next /\ negotiation' = state /\ turns' = turns
  BY <1>1 DEF Goes
<1>7. Progress' /\ LedgersProgress'
  BY <1>1, <1>2, <1>3, <1>5, <1>6 DEF Progress, LedgersProgress, Stamp, Counted, Responded,
     Advised, Evaluated, FinallyEvaluated, Another, ThisTurn
<1>8. Routed'
  BY <1>1, <1>2, <1>3, <1>5, <1>6, MaxTurnsAssumption DEF Routed, Responded, Counted,
     FinallyEvaluated, Another
<1>9. next \in Nodes \ {"idle"}
  BY <1>5, AgentNodesAre DEF Nodes
<1>10. StartsWith(next) + AgentsAfter(next) <= AgentsAfter(node)
  BY <1>1, <1>5, NodesPassOn
<1> QED
  BY <1>1, <1>3, <1>7, <1>8, <1>9, <1>10, AgentNodesAre, GoesKeeps

LEMMA ClassifierKeeps == IInv /\ intent_classifier_node => TurnGoesOn
<1> SUFFICES ASSUME IInv, intent_classifier_node PROVE TurnGoesOn
  OBVIOUS
<1>1. PICK intent \in Classifications :
          LET state == [Noted EXCEPT !.intent_classification = intent]
          IN  Goes(route_after_intent(state), state)
  BY DEF intent_classifier_node
<1> DEFINE state == [Noted EXCEPT !.intent_classification = intent]
           next == route_after_intent(state)
<1>2. node = "classify_intent" /\ Finalizes("classify_intent") /\ Goes(next, state)
  BY <1>1 DEF intent_classifier_node, Finalizes
<1>3. /\ turns \in 0..MaxTurns /\ negotiation \in NegotiationGraphState
      /\ Progress /\ LedgersProgress /\ Routed /\ turns \in Nat
  BY <1>2, RowWaits
<1>4. /\ node \in AgentNodes /\ agent.node = "finalize"
      /\ Noted \in NegotiationGraphState
      /\ Noted = [negotiation EXCEPT !.evidence_ledger = update_agent_ledger]
      /\ \A a \in {"evaluator", "counterpart", "coach"} :
            Noted.evidence_ledger[a] = negotiation.evidence_ledger[a]
      /\ Noted.evidence_ledger["intent_classifier"]
            = negotiation.evidence_ledger["intent_classifier"] \cup {ThisTurn}
  BY <1>2, AgentNodesAre, FinishedAgent, LedgersAre
<1>5. /\ state \in NegotiationGraphState
      /\ state.evidence_ledger = Noted.evidence_ledger
      /\ state.turn_count = negotiation.turn_count /\ state.response = negotiation.response
      /\ state.evaluation = negotiation.evaluation
      /\ state.final_evaluation = negotiation.final_evaluation
      /\ state.coach_advice = negotiation.coach_advice
      /\ state.phase = negotiation.phase
      /\ state.requested_action = negotiation.requested_action
      /\ state.intent_classification = intent
  <2>1. intent \in {"none", "continue", "unsure_end", "end"}
    BY DEF Classifications, fallback_intent_classification
  <2> QED
    BY <1>3, <1>4, <2>1, ZenonT(60) DEF NegotiationGraphState
<1> HIDE DEF state
<1>6. \/ next = "prepare_final_evaluation" /\ state.intent_classification = "end"
      \/ next = "call_counterpart" /\ state.intent_classification # "end"
  BY DEF route_after_intent
<1> HIDE DEF next
<1>7. node' = next /\ negotiation' = state /\ turns' = turns
  BY <1>2 DEF Goes
<1>8. Progress'
  BY <1>2, <1>3, <1>5, <1>6, <1>7 DEF Progress, Stamp, Counted, Responded,
     Advised, Evaluated, FinallyEvaluated, Another, ThisTurn
<1>9. LedgersProgress'
  BY <1>2, <1>3, <1>4, <1>5, <1>6, <1>7, OneMoreTurn DEF LedgersProgress, Stamp, Counted,
     Responded, Advised, Evaluated, FinallyEvaluated, Another, ThisTurn
<1>10. Routed'
  BY <1>2, <1>3, <1>5, <1>6, <1>7, MaxTurnsAssumption DEF Routed, Responded, Counted,
     FinallyEvaluated, Another
<1>11. next \in Nodes \ {"idle"} /\ StartsWith(next) + AgentsAfter(next) <= AgentsAfter(node)
  BY <1>2, <1>6, AgentNodesAre, NodesPassOn DEF Nodes
<1> QED
  BY <1>2, <1>4, <1>5, <1>8, <1>9, <1>10, <1>11, GoesKeeps

LEMMA CounterpartKeeps == IInv /\ counterpart_node => TurnGoesOn
<1> SUFFICES ASSUME IInv, counterpart_node PROVE TurnGoesOn
  OBVIOUS
<1> DEFINE state == [Noted EXCEPT !.response = ThisTurn]
<1>1. /\ node = "call_counterpart" /\ Finalizes("call_counterpart")
      /\ Goes("complete_counterpart_turn", state)
  BY DEF counterpart_node, Finalizes
<1>2. /\ turns \in 0..MaxTurns /\ negotiation \in NegotiationGraphState
      /\ Progress /\ LedgersProgress /\ Routed /\ turns \in Nat /\ ThisTurn \in TurnNumbers
  BY <1>1, RowWaits
<1>3. /\ node \in AgentNodes /\ agent.node = "finalize"
      /\ Noted \in NegotiationGraphState
      /\ Noted = [negotiation EXCEPT !.evidence_ledger = update_agent_ledger]
      /\ \A a \in {"evaluator", "intent_classifier", "coach"} :
            Noted.evidence_ledger[a] = negotiation.evidence_ledger[a]
      /\ Noted.evidence_ledger["counterpart"]
            = negotiation.evidence_ledger["counterpart"] \cup {ThisTurn}
  BY <1>1, AgentNodesAre, FinishedAgent, LedgersAre
<1>4. /\ state \in NegotiationGraphState
      /\ state.evidence_ledger = Noted.evidence_ledger
      /\ state.turn_count = negotiation.turn_count /\ state.response = ThisTurn
      /\ state.evaluation = negotiation.evaluation
      /\ state.final_evaluation = negotiation.final_evaluation
      /\ state.coach_advice = negotiation.coach_advice
      /\ state.phase = negotiation.phase
  BY <1>2, <1>3 DEF NegotiationGraphState
<1> HIDE DEF state
<1>5. node' = "complete_counterpart_turn" /\ negotiation' = state /\ turns' = turns
  BY <1>1 DEF Goes
<1>6. Progress'
  BY <1>1, <1>2, <1>4, <1>5 DEF Progress, Stamp, Counted, Responded,
     Advised, Evaluated, FinallyEvaluated, Another, ThisTurn
<1>7. LedgersProgress'
  BY <1>1, <1>2, <1>3, <1>4, <1>5, OneMoreTurn DEF LedgersProgress, Stamp, Counted,
     Responded, Advised, Evaluated, FinallyEvaluated, Another, ThisTurn
<1>8. Routed'
  BY <1>1, <1>2, <1>4, <1>5 DEF Routed, Responded, Counted, FinallyEvaluated, Another
<1> QED
  BY <1>1, <1>3, <1>4, <1>6, <1>7, <1>8, AgentNodesAre, NodesPassOn, GoesKeeps DEF Nodes

LEMMA CompleteTurnKeeps == IInv /\ node_complete_counterpart_turn => TurnGoesOn
<1> SUFFICES ASSUME IInv, node_complete_counterpart_turn PROVE TurnGoesOn
  OBVIOUS
<1> DEFINE state == [negotiation EXCEPT !.turn_count = @ + 1, !.evaluation_mode = "rolling"]
<1>1. node = "complete_counterpart_turn" /\ Goes("rolling_evaluator", state)
  BY DEF node_complete_counterpart_turn
<1>2. /\ turns \in 0..MaxTurns /\ negotiation \in NegotiationGraphState
      /\ Progress /\ LedgersProgress /\ Routed /\ turns \in Nat
  BY <1>1, RowWaits
<1>3. negotiation.turn_count = turns /\ turns < MaxTurns
  BY <1>1, <1>2 DEF Progress, Stamp, Counted, Routed, Responded
<1>4. /\ state \in NegotiationGraphState
      /\ state.evidence_ledger = negotiation.evidence_ledger
      /\ state.turn_count = ThisTurn /\ state.response = negotiation.response
      /\ state.evaluation = negotiation.evaluation
      /\ state.final_evaluation = negotiation.final_evaluation
      /\ state.coach_advice = negotiation.coach_advice
      /\ state.phase = negotiation.phase /\ state.evaluation_mode = "rolling"
  <2>1. negotiation.turn_count + 1 \in 0..MaxTurns
    BY <1>2, <1>3, MaxTurnsAssumption
  <2> QED
    BY <1>2, <1>3, <2>1 DEF NegotiationGraphState, ThisTurn
<1> HIDE DEF state
<1>5. node' = "rolling_evaluator" /\ negotiation' = state /\ turns' = turns
  BY <1>1 DEF Goes
<1>6. Progress' /\ LedgersProgress'
  BY <1>1, <1>2, <1>4, <1>5 DEF Progress, LedgersProgress, Stamp, Counted, Responded,
     Advised, Evaluated, FinallyEvaluated, Another, ThisTurn
<1>7. Routed'
  BY <1>1, <1>2, <1>3, <1>4, <1>5 DEF Routed, Responded, Counted, FinallyEvaluated, Another
<1> QED
  BY <1>1, <1>4, <1>6, <1>7, AgentNodesAre, NodesPassOn, GoesKeeps DEF Nodes

(* The evaluator goes by the mode, which its two nodes never mix up.       *)
LEMMA EvaluatorKeeps == IInv /\ evaluator_node => TurnGoesOn
<1> SUFFICES ASSUME IInv, evaluator_node PROVE TurnGoesOn
  OBVIOUS
<1> DEFINE state == node_finalize_evaluator(Noted)
           next == IF node = "rolling_evaluator" THEN "coach" ELSE "finalize"
<1>1. /\ node \in {"rolling_evaluator", "final_evaluator"} /\ Finalizes(node)
      /\ Goes(next, state)
  BY DEF evaluator_node, Finalizes
<1>2. /\ turns \in 0..MaxTurns /\ negotiation \in NegotiationGraphState
      /\ Progress /\ LedgersProgress /\ Routed /\ turns \in Nat /\ ThisTurn \in TurnNumbers
  BY <1>1, RowWaits
<1>3. /\ node \in AgentNodes /\ agent.node = "finalize"
      /\ Noted \in NegotiationGraphState
      /\ Noted = [negotiation EXCEPT !.evidence_ledger = update_agent_ledger]
      /\ \A a \in {"counterpart", "intent_classifier", "coach"} :
            Noted.evidence_ledger[a] = negotiation.evidence_ledger[a]
      /\ Noted.evidence_ledger["evaluator"]
            = negotiation.evidence_ledger["evaluator"] \cup {ThisTurn}
  BY <1>1, AgentNodesAre, FinishedAgent, LedgersAre
<1>4. /\ node = "rolling_evaluator" => negotiation.evaluation_mode = "rolling"
      /\ node = "final_evaluator" => negotiation.evaluation_mode = "final"
  BY <1>2 DEF Routed
<1>5. /\ Noted.turn_count = negotiation.turn_count /\ Noted.response = negotiation.response
      /\ Noted.evaluation = negotiation.evaluation
      /\ Noted.final_evaluation = negotiation.final_evaluation
      /\ Noted.coach_advice = negotiation.coach_advice /\ Noted.phase = negotiation.phase
      /\ Noted.terminal_reason = negotiation.terminal_reason
      /\ Noted.intent_classification = negotiation.intent_classification
      /\ Noted.evaluation_mode = negotiation.evaluation_mode
  BY <1>2, <1>3 DEF NegotiationGraphState
<1>6. state = IF node = "final_evaluator" THEN [Noted EXCEPT !.final_evaluation = ThisTurn]
              ELSE [Noted EXCEPT !.evaluation = ThisTurn]
  BY <1>1, <1>4, <1>5 DEF node_finalize_evaluator
<1> HIDE DEF state
<1>7. /\ state \in NegotiationGraphState
      /\ state.evidence_ledger = Noted.evidence_ledger
      /\ state.turn_count = negotiation.turn_count /\ state.response = negotiation.response
      /\ state.coach_advice = negotiation.coach_advice /\ state.phase = negotiation.phase
      /\ state.terminal_reason = negotiation.terminal_reason
      /\ state.intent_classification = negotiation.intent_classification
      /\ state.evaluation = IF node = "final_evaluator" THEN negotiation.evaluation ELSE ThisTurn
      /\ state.final_evaluation = IF node = "final_evaluator" THEN ThisTurn
                                  ELSE negotiation.final_evaluation
  BY <1>2, <1>3, <1>5, <1>6, ZenonT(60) DEF NegotiationGraphState
<1>8. node' = next /\ negotiation' = state /\ turns' = turns
  BY <1>1 DEF Goes
<1>9. \/ node = "rolling_evaluator" /\ node' = "coach"
      \/ node = "final_evaluator" /\ node' = "finalize"
  BY <1>1, <1>8
<1> HIDE DEF next
<1>10. Progress'
  BY <1>2, <1>7, <1>8, <1>9 DEF Progress, Stamp, Counted, Responded,
     Advised, Evaluated, FinallyEvaluated, Another, ThisTurn
<1>11. LedgersProgress'
  BY <1>2, <1>3, <1>7, <1>8, <1>9, OneMoreTurn DEF LedgersProgress, Stamp, Counted,
     Responded, Advised, Evaluated, FinallyEvaluated, Another, ThisTurn
<1>12. Routed'
  BY <1>2, <1>7, <1>8, <1>9 DEF Routed, Responded, Counted, FinallyEvaluated, Another
<1>13. next \in Nodes \ {"idle"} /\ StartsWith(next) + AgentsAfter(next) <= AgentsAfter(node)
  BY <1>8, <1>9, AgentNodesAre, NodesPassOn DEF Nodes
<1> QED
  BY <1>1, <1>3, <1>7, <1>10, <1>11, <1>12, <1>13, AgentFields, GoesKeeps

LEMMA CoachKeeps == IInv /\ coach_node => TurnGoesOn
<1> SUFFICES ASSUME IInv, coach_node PROVE TurnGoesOn
  OBVIOUS
<1> DEFINE state == [Noted EXCEPT !.coach_advice = ThisTurn]
<1>1. /\ node = "coach" /\ Finalizes("coach") /\ Goes("pause_for_user", state)
  BY DEF coach_node, Finalizes
<1>2. /\ turns \in 0..MaxTurns /\ negotiation \in NegotiationGraphState
      /\ Progress /\ LedgersProgress /\ Routed /\ turns \in Nat /\ ThisTurn \in TurnNumbers
  BY <1>1, RowWaits
<1>3. /\ node \in AgentNodes /\ agent.node = "finalize"
      /\ Noted \in NegotiationGraphState
      /\ Noted = [negotiation EXCEPT !.evidence_ledger = update_agent_ledger]
      /\ \A a \in {"evaluator", "intent_classifier", "counterpart"} :
            Noted.evidence_ledger[a] = negotiation.evidence_ledger[a]
      /\ Noted.evidence_ledger["coach"]
            = negotiation.evidence_ledger["coach"] \cup {ThisTurn}
  BY <1>1, AgentNodesAre, FinishedAgent, LedgersAre
<1>4. /\ state \in NegotiationGraphState
      /\ state.evidence_ledger = Noted.evidence_ledger
      /\ state.turn_count = negotiation.turn_count /\ state.response = negotiation.response
      /\ state.evaluation = negotiation.evaluation
      /\ state.final_evaluation = negotiation.final_evaluation
      /\ state.coach_advice = ThisTurn
      /\ state.phase = negotiation.phase
  BY <1>2, <1>3 DEF NegotiationGraphState
<1> HIDE DEF state
<1>5. node' = "pause_for_user" /\ negotiation' = state /\ turns' = turns
  BY <1>1 DEF Goes
<1>6. Progress'
  BY <1>1, <1>2, <1>4, <1>5 DEF Progress, Stamp, Counted, Responded,
     Advised, Evaluated, FinallyEvaluated, Another, ThisTurn
<1>7. LedgersProgress'
  BY <1>1, <1>2, <1>3, <1>4, <1>5, OneMoreTurn DEF LedgersProgress, Stamp, Counted,
     Responded, Advised, Evaluated, FinallyEvaluated, Another, ThisTurn
<1>8. Routed'
  BY <1>1, <1>2, <1>4, <1>5 DEF Routed, Responded, Counted, FinallyEvaluated, Another
<1> QED
  BY <1>1, <1>3, <1>4, <1>6, <1>7, <1>8, AgentNodesAre, NodesPassOn, GoesKeeps DEF Nodes

LEMMA PauseKeeps == IInv /\ node_pause_for_user => TurnGoesOn
<1> SUFFICES ASSUME IInv, node_pause_for_user PROVE TurnGoesOn
  OBVIOUS
<1> DEFINE state == [negotiation EXCEPT !.should_pause = TRUE]
<1>1. node = "pause_for_user" /\ Goes("store", state)
  BY DEF node_pause_for_user
<1>2. /\ turns \in 0..MaxTurns /\ negotiation \in NegotiationGraphState
      /\ Progress /\ LedgersProgress /\ Routed
  BY <1>1, RowWaits
<1>3. /\ state \in NegotiationGraphState /\ state.should_pause
      /\ state.evidence_ledger = negotiation.evidence_ledger
      /\ state.turn_count = negotiation.turn_count /\ state.response = negotiation.response
      /\ state.evaluation = negotiation.evaluation
      /\ state.final_evaluation = negotiation.final_evaluation
      /\ state.coach_advice = negotiation.coach_advice /\ state.phase = negotiation.phase
  BY <1>2 DEF NegotiationGraphState
<1> HIDE DEF state
<1>4. node' = "store" /\ negotiation' = state /\ turns' = turns
  BY <1>1 DEF Goes
<1>5. Another
  BY <1>1, <1>2 DEF Routed
<1>6. Progress' /\ LedgersProgress'
  BY <1>1, <1>2, <1>3, <1>4, <1>5 DEF Progress, LedgersProgress, Stamp, Counted, Responded,
     Advised, Evaluated, FinallyEvaluated, Another, ThisTurn
<1>7. Routed'
  BY <1>1, <1>2, <1>3, <1>4, <1>5 DEF Routed, Responded, Counted, FinallyEvaluated, Another
<1> QED
  BY <1>1, <1>3, <1>6, <1>7, AgentNodesAre, NodesPassOn, GoesKeeps DEF Nodes

(* The reason is the one the routers went by. *)
LEMMA PrepareFinalKeeps == IInv /\ node_prepare_final_evaluation => TurnGoesOn
<1> SUFFICES ASSUME IInv, node_prepare_final_evaluation PROVE TurnGoesOn
  OBVIOUS
<1> DEFINE reason == TerminalReason(negotiation)
           state == Final(negotiation, reason)
<1>1. node = "prepare_final_evaluation" /\ Goes("final_evaluator", state)
  BY DEF node_prepare_final_evaluation
<1>2. /\ turns \in 0..MaxTurns /\ negotiation \in NegotiationGraphState
      /\ Progress /\ LedgersProgress /\ Routed
  BY <1>1, RowWaits
<1>3. negotiation.turn_count = turns
  BY <1>1, <1>2 DEF Progress, Stamp, Counted
<1>4. /\ reason \in {"turn_limit", "student_request", "classified_intent"}
      /\ reason = "turn_limit" <=> turns = MaxTurns
      /\ reason = "classified_intent" <=>
            turns < MaxTurns /\ negotiation.requested_action # "end"
  BY <1>2, <1>3, MaxTurnsAssumption DEF TerminalReason, turn_limit_reached
<1> HIDE DEF reason
<1>5. /\ state \in NegotiationGraphState /\ state.evaluation_mode = "final"
      /\ state.terminal_reason = reason
      /\ state.intent_classification = negotiation.intent_classification
      /\ state.evidence_ledger = negotiation.evidence_ledger
      /\ state.turn_count = negotiation.turn_count /\ state.response = negotiation.response
      /\ state.evaluation = negotiation.evaluation
      /\ state.final_evaluation = negotiation.final_evaluation
      /\ state.coach_advice = negotiation.coach_advice /\ state.phase = negotiation.phase
  BY <1>2, <1>4 DEF Final, NegotiationGraphState
<1> HIDE DEF state
<1>6. node' = "final_evaluator" /\ negotiation' = state /\ turns' = turns
  BY <1>1 DEF Goes
<1>7. Progress' /\ LedgersProgress'
  BY <1>1, <1>2, <1>5, <1>6 DEF Progress, LedgersProgress, Stamp, Counted, Responded,
     Advised, Evaluated, FinallyEvaluated, Another, ThisTurn
<1>8. Routed'
  BY <1>1, <1>2, <1>4, <1>5, <1>6 DEF Routed, Responded, Counted, FinallyEvaluated, Another
<1> QED
  BY <1>1, <1>5, <1>7, <1>8, AgentNodesAre, NodesPassOn, GoesKeeps DEF Nodes

LEMMA FinalizeKeeps == IInv /\ node_finalize_negotiation => TurnGoesOn
<1> SUFFICES ASSUME IInv, node_finalize_negotiation PROVE TurnGoesOn
  OBVIOUS
<1> DEFINE state == [negotiation EXCEPT !.phase = "ended", !.should_pause = FALSE]
<1>1. node = "finalize" /\ Goes("store", state)
  BY DEF node_finalize_negotiation
<1>2. /\ turns \in 0..MaxTurns /\ negotiation \in NegotiationGraphState
      /\ Progress /\ LedgersProgress /\ Routed
  BY <1>1, RowWaits
<1>3. /\ state \in NegotiationGraphState /\ state.phase = "ended"
      /\ state.terminal_reason = negotiation.terminal_reason
      /\ state.intent_classification = negotiation.intent_classification
      /\ state.evidence_ledger = negotiation.evidence_ledger
      /\ state.turn_count = negotiation.turn_count /\ state.response = negotiation.response
      /\ state.evaluation = negotiation.evaluation
      /\ state.final_evaluation = negotiation.final_evaluation
      /\ state.coach_advice = negotiation.coach_advice
  BY <1>2 DEF NegotiationGraphState
<1> HIDE DEF state
<1>4. node' = "store" /\ negotiation' = state /\ turns' = turns
  BY <1>1 DEF Goes
<1>5. Progress' /\ LedgersProgress'
  BY <1>1, <1>2, <1>3, <1>4 DEF Progress, LedgersProgress, Stamp, Counted, Responded,
     Advised, Evaluated, FinallyEvaluated, Another, ThisTurn
<1>6. Routed'
  BY <1>1, <1>2, <1>3, <1>4 DEF Routed, Responded, Counted, FinallyEvaluated, Another
<1> QED
  BY <1>1, <1>3, <1>5, <1>6, AgentNodesAre, NodesPassOn, GoesKeeps DEF Nodes

(* The proxy's message, with which the student's turn is taken.            *)
LEMMA ProxyKeeps == IInv /\ invoke_user_proxy_turn => TurnGoesOn
<1> SUFFICES ASSUME IInv, invoke_user_proxy_turn PROVE TurnGoesOn
  OBVIOUS
<1>1. PICK acceptance \in BOOLEAN : negotiation' = [negotiation EXCEPT !.acceptance = acceptance]
  BY DEF invoke_user_proxy_turn
<1> DEFINE state == [negotiation EXCEPT !.acceptance = acceptance]
<1>2. /\ node = "user_proxy" /\ agent.node = "finalize"
      /\ node' = "prepare_context" /\ agent' = NoAgent /\ negotiation' = state
      /\ UNCHANGED <<crag, calls, learner, simulation, turns>>
  BY <1>1 DEF invoke_user_proxy_turn, Finalizes
<1>3. /\ turns \in 0..MaxTurns /\ negotiation \in NegotiationGraphState
      /\ Progress /\ LedgersProgress /\ Routed
  BY <1>2, RowWaits
<1>4. /\ state \in NegotiationGraphState
      /\ state.evidence_ledger = negotiation.evidence_ledger
      /\ state.turn_count = negotiation.turn_count /\ state.response = negotiation.response
      /\ state.evaluation = negotiation.evaluation
      /\ state.final_evaluation = negotiation.final_evaluation
      /\ state.coach_advice = negotiation.coach_advice /\ state.phase = negotiation.phase
  BY <1>3 DEF NegotiationGraphState
<1> HIDE DEF state
<1>5. Progress' /\ LedgersProgress'
  BY <1>2, <1>3, <1>4 DEF Progress, LedgersProgress, Stamp, Counted, Responded,
     Advised, Evaluated, FinallyEvaluated, Another, ThisTurn
<1>6. Routed'
  BY <1>2, <1>3, <1>4 DEF Routed, Responded, Counted, FinallyEvaluated, Another
<1>7. /\ crag = NotRunning
      /\ calls' \in Nat /\ calls' + StartsWith(node') + AgentsAfter(node') <= TurnCalls
  BY <1>2, NodesPassOn, BudgetIsPassedOn
<1>8. learner.node = "idle" /\ Stored.phase # "ended" /\ simulation.status # "completed"
  BY <1>2, RowWaits DEF IInv, OneAtATime
<1>9. node' \in Nodes \ {"idle"} /\ node' \notin AgentNodes
  BY <1>2, AgentNodesAre DEF Nodes
<1> QED
  BY <1>2, <1>4, <1>5, <1>6, <1>7, <1>8, <1>9 DEF TurnGoesOn

(* A turn begins with what is stored, and a budget of its own.             *)
LEMMA SubmitKeeps ==
    IInv /\ (submit_simulation_turn \/ submit_simulation_proxy_turn) => TurnGoesOn
<1> SUFFICES ASSUME IInv, submit_simulation_turn \/ submit_simulation_proxy_turn
             PROVE  TurnGoesOn
  OBVIOUS
<1>1. /\ Accepts /\ calls' = 0 /\ UNCHANGED <<crag, learner, simulation, turns>>
      /\ node' \in {"prepare_context", "user_proxy"}
  BY DEF submit_simulation_turn, submit_simulation_proxy_turn
<1>2. /\ node = "idle" /\ learner.node = "idle" /\ simulation.status # "completed"
      /\ Stored.phase # "ended" /\ Stored \in NegotiationGraphState /\ crag = NotRunning
  BY <1>1, AgentNodesAre DEF Accepts, Stored, IInv, TypeOK, OneAtATime, CragAwaited
<1>3. /\ negotiation' \in NegotiationGraphState
      /\ negotiation'.evidence_ledger = Stored.evidence_ledger
      /\ negotiation'.turn_count = Stored.turn_count /\ negotiation'.response = Stored.response
      /\ negotiation'.evaluation = Stored.evaluation
      /\ negotiation'.final_evaluation = Stored.final_evaluation
      /\ negotiation'.coach_advice = Stored.coach_advice /\ negotiation'.phase = Stored.phase
  <2>1. CASE submit_simulation_turn
    <3>1. PICK action \in {"none", "continue", "end"}, acceptance \in BOOLEAN :
              negotiation' = [Stored EXCEPT
                  !.requested_action = IF action = "none" /\ acceptance THEN "end" ELSE action,
                  !.acceptance = acceptance]
      BY <2>1 DEF submit_simulation_turn, Stored
    <3>2. PICK requested \in {"none", "continue", "end"} :
              negotiation' = [Stored EXCEPT !.requested_action = requested,
                                            !.acceptance = acceptance]
      BY <3>1
    <3> QED
      BY <1>2, <3>2 DEF NegotiationGraphState
  <2>2. CASE submit_simulation_proxy_turn
    BY <1>2, <2>2 DEF submit_simulation_proxy_turn, Stored
  <2> QED
    BY <2>1, <2>2
<1>4. agent' = IF node' \in AgentNodes THEN Started(AgentOf[node'], negotiation') ELSE NoAgent
  <2>1. CASE submit_simulation_turn
    BY <1>2, <2>1, AgentNodesAre DEF submit_simulation_turn, IInv, TypeOK
  <2>2. CASE submit_simulation_proxy_turn
    BY <2>2, AgentNodesAre DEF submit_simulation_proxy_turn
  <2> QED
    BY <2>1, <2>2
<1>5. /\ turns \in Nat /\ Stored.turn_count = turns /\ Stored.response = turns
      /\ Stored.evaluation = turns /\ Stored.coach_advice = turns /\ Stored.final_evaluation = 0
      /\ Stored.evidence_ledger["evaluator"] = 1..turns
      /\ Stored.evidence_ledger["counterpart"] = 1..turns
      /\ Stored.evidence_ledger["coach"] = 1..turns
      /\ Stored.evidence_ledger["intent_classifier"] \subseteq 1..turns
  <2>1. Stored.turn_count \in Nat
    BY <1>2 DEF NegotiationGraphState
  <2> QED
    BY <1>2, <2>1 DEF IInv, RowIsSettled, TurnsAreWhole, LedgersHoldEveryTurn
<1>6. Progress' /\ LedgersProgress'
  BY <1>1, <1>2, <1>3, <1>5, OneMoreTurn DEF Progress, LedgersProgress, Stamp, Counted,
     Responded, Advised, Evaluated, FinallyEvaluated, Another, ThisTurn
<1>7. Routed'
  BY <1>1, <1>2, <1>3, <1>5 DEF Routed, Responded, Counted, FinallyEvaluated, Another
<1>8. calls' \in Nat /\ calls' + StartsWith(node') + AgentsAfter(node') <= TurnCalls
  BY <1>1, CragCallsAreANumber DEF StartsWith, AgentsAfter, TurnCalls
<1>9. node' \in Nodes \ {"idle"}
  BY <1>1, AgentNodesAre DEF Nodes
<1> QED
  BY <1>1, <1>2, <1>3, <1>4, <1>6, <1>7, <1>8, <1>9 DEF TurnGoesOn

-----------------------------------------------------------------------------
(* The end of a turn: the row is written or is as it was.                  *)
TurnIsOver ==
    /\ node' = "idle" /\ agent' = NoAgent
    /\ crag = NotRunning /\ learner.node = "idle" /\ UNCHANGED <<crag, learner>>
    /\ calls' \in Nat /\ calls' <= TurnCalls
    /\ simulation' \in [status : {"active", "paused", "completed"},
                        negotiation_state : NegotiationGraphState,
                        learner_config : BOOLEAN]
    /\ turns' \in TurnNumbers
    /\ RowIsSettled'

LEMMA EndKeeps == IInv /\ TurnIsOver => IInv'
<1> SUFFICES ASSUME IInv, TurnIsOver PROVE IInv'
  OBVIOUS
<1> USE DEF TurnIsOver
<1>1. node' \notin AgentNodes /\ node' \in Nodes
  BY AgentNodesAre DEF Nodes
<1>2. CragSound'
  BY SameGraphIsSound DEF IInv
<1>3. negotiation' \in NegotiationGraphState
  BY DEF RowIsSettled, Stored
<1>4. TypeOK'
  BY <1>1, <1>2, <1>3 DEF IInv, TypeOK, CragSound
<1>5. OneAtATime' /\ AgentIsSound' /\ TurnIsBudgeted' /\ TurnIsUnderWay'
  BY <1>1 DEF OneAtATime, AgentIsSound, TurnIsBudgeted, TurnIsUnderWay
<1>6. LearnerIsSound' /\ QuestionIsBudgeted'
  <2>1. RetrievalTool' = RetrievalTool /\ _tool_names_for_metadata' = _tool_names_for_metadata
    BY SameTools
  <2> QED
    BY <2>1 DEF IInv, LearnerIsSound, QuestionIsBudgeted
<1>7. ModelCallsAreBounded'
  BY DEF ModelCallsAreBounded
<1> QED
  BY <1>2, <1>4, <1>5, <1>6, <1>7 DEF IInv

(* The row as it was serves for the request that left nothing behind.      *)
LEMMA RowIsAsItWas ==
    ASSUME IInv, node # "idle", UNCHANGED <<simulation, turns>>, negotiation' = Stored
    PROVE  RowIsSettled'
BY DEF IInv, RowIsSettled, TurnsAreWhole, LedgersHoldEveryTurn, Stored

LEMMA WithinTheTurn ==
    ASSUME IInv, node # "idle", node \notin AgentNodes \/ agent.node = "finalize"
    PROVE  /\ crag = NotRunning /\ calls \in Nat /\ calls <= TurnCalls /\ 0 <= TurnCalls
           /\ learner.node = "idle" /\ turns \in TurnNumbers
           /\ simulation \in [status : {"active", "paused", "completed"},
                              negotiation_state : NegotiationGraphState,
                              learner_config : BOOLEAN]
<1>1. crag = NotRunning /\ learner.node = "idle"
  BY RowWaits DEF IInv, OneAtATime, CragAwaited
<1>2. calls + AgentAhead + AgentsAfter(node) <= TurnCalls
  BY DEF IInv, TurnIsBudgeted
<1> QED
  BY <1>1, <1>2, BudgetsAreNumbers DEF IInv, TypeOK

LEMMA BlankProxyKeeps == IInv /\ ProxyResponseWasEmpty => TurnIsOver
<1> SUFFICES ASSUME IInv, ProxyResponseWasEmpty PROVE TurnIsOver
  OBVIOUS
<1>1. /\ node = "user_proxy" /\ agent.node = "finalize" /\ negotiation' = Stored
      /\ node' = "idle" /\ agent' = NoAgent
      /\ UNCHANGED <<crag, calls, learner, simulation, turns>>
  BY DEF ProxyResponseWasEmpty, Finalizes, Stored
<1> QED
  BY <1>1, RowIsAsItWas, WithinTheTurn DEF TurnIsOver

(* What is stored at the end of a whole turn. *)
LEMMA StoreKeeps == IInv /\ update_simulation => TurnIsOver
<1> SUFFICES ASSUME IInv, update_simulation PROVE TurnIsOver
  OBVIOUS
<1> DEFINE state == [negotiation EXCEPT !.requested_action = "none", !.acceptance = FALSE]
<1>1. /\ node = "store" /\ node' = "idle" /\ calls' = 0 /\ UNCHANGED <<crag, learner, agent>>
      /\ \/ simulation' = AfterGraph(state) /\ negotiation' = state /\ turns' = ThisTurn
         \/ negotiation' = Stored /\ UNCHANGED <<simulation, turns>>
  BY DEF update_simulation, Stored
<1>2. agent' = NoAgent /\ node \notin AgentNodes /\ node # "idle"
  BY <1>1, AgentNodesAre DEF IInv, TypeOK
<1>3. CASE negotiation' = Stored /\ UNCHANGED <<simulation, turns>>
  BY <1>1, <1>2, <1>3, RowIsAsItWas, WithinTheTurn DEF TurnIsOver
<1>4. CASE simulation' = AfterGraph(state) /\ negotiation' = state /\ turns' = ThisTurn
  <2>1. /\ turns \in 0..MaxTurns /\ negotiation \in NegotiationGraphState
        /\ Progress /\ LedgersProgress /\ Routed /\ turns \in Nat /\ ThisTurn \in TurnNumbers
    BY <1>2, RowWaits
  <2>2. /\ state \in NegotiationGraphState
        /\ state.evidence_ledger = negotiation.evidence_ledger
        /\ state.turn_count = negotiation.turn_count /\ state.response = negotiation.response
        /\ state.evaluation = negotiation.evaluation
        /\ state.final_evaluation = negotiation.final_evaluation
        /\ state.coach_advice = negotiation.coach_advice /\ state.phase = negotiation.phase
        /\ state.terminal_reason = negotiation.terminal_reason
        /\ state.intent_classification = negotiation.intent_classification
        /\ state.should_pause = negotiation.should_pause
    BY <2>1 DEF NegotiationGraphState
  <2> HIDE DEF state
  <2>3. /\ simulation'.status = _status_after_graph(state)
        /\ simulation'.negotiation_state = state /\ Stored' = state
        /\ simulation' \in [status : {"active", "paused", "completed"},
                            negotiation_state : NegotiationGraphState,
                            learner_config : BOOLEAN]
    BY <1>4, <2>2 DEF AfterGraph, _status_after_graph, Stored
  <2>4. RowIsSettled'
    <3>1. CASE Another
      <4>1. simulation'.status = "paused" /\ state.phase # "ended"
        BY <1>1, <2>1, <2>2, <2>3, <3>1 DEF _status_after_graph, Routed, Another
      <4>2. /\ state.turn_count = ThisTurn /\ state.response = ThisTurn
            /\ state.evaluation = ThisTurn /\ state.coach_advice = ThisTurn
            /\ state.final_evaluation = 0
        BY <1>1, <2>1, <2>2, <3>1 DEF Progress, Stamp, Counted, Responded, Evaluated, Advised,
           FinallyEvaluated
      <4>3. /\ state.evidence_ledger["evaluator"] = 1..ThisTurn
            /\ \A a \in {"counterpart", "coach"} : state.evidence_ledger[a] = 1..ThisTurn
            /\ state.evidence_ledger["intent_classifier"] \subseteq 1..ThisTurn
        BY <1>1, <2>1, <2>2, <3>1 DEF LedgersProgress, Stamp, Counted, Responded, Evaluated,
           Advised, FinallyEvaluated
      <4> QED
        BY <1>1, <1>4, <2>3, <4>1, <4>2, <4>3 DEF RowIsSettled, TurnsAreWhole,
           LedgersHoldEveryTurn
    <3>2. CASE ~Another
      <4>1. simulation'.status = "completed" /\ state.phase = "ended"
        BY <2>2, <2>3, <3>2 DEF _status_after_graph, Another
      <4>2. /\ state.turn_count = turns /\ state.response = turns
            /\ state.evaluation = turns /\ state.coach_advice = turns
            /\ state.final_evaluation = ThisTurn
        BY <1>1, <2>1, <2>2, <3>2 DEF Progress, Stamp, Counted, Responded, Evaluated, Advised,
           FinallyEvaluated
      <4>3. /\ state.evidence_ledger["evaluator"] = 1..ThisTurn
            /\ \A a \in {"counterpart", "coach"} : state.evidence_ledger[a] = 1..turns
            /\ state.evidence_ledger["intent_classifier"] \subseteq 1..ThisTurn
        BY <1>1, <2>1, <2>2, <3>2 DEF LedgersProgress, Stamp, Counted, Responded, Evaluated,
           Advised, FinallyEvaluated
      <4>4. /\ state.terminal_reason = "turn_limit" <=> turns = MaxTurns
            /\ state.terminal_reason = "classified_intent" <=>
                  state.intent_classification = "end"
        BY <1>1, <2>1, <2>2, <3>2 DEF Routed, FinallyEvaluated
      <4>5. ThisTurn = turns + 1
        BY DEF ThisTurn
      <4> QED
        BY <1>1, <1>4, <2>3, <4>1, <4>2, <4>3, <4>4, <4>5 DEF RowIsSettled, TurnsAreWhole,
           LedgersHoldEveryTurn
    <3> QED
      BY <3>1, <3>2
  <2> QED
    BY <1>1, <1>2, <1>4, <2>1, <2>3, <2>4, WithinTheTurn DEF TurnIsOver
<1> QED
  BY <1>1, <1>3, <1>4

LEMMA GraphStepKeeps ==
    IInv /\ (submit_simulation_turn \/ submit_simulation_proxy_turn \/ GraphNext) => IInv'
BY TurnKeeps, EndKeeps, SubmitKeeps, ProxyKeeps, BlankProxyKeeps, PrepareKeeps,
   ClassifierKeeps, CounterpartKeeps, CompleteTurnKeeps, EvaluatorKeeps, CoachKeeps,
   PauseKeeps, PrepareFinalKeeps, FinalizeKeeps, StoreKeeps
   DEF GraphNext

-----------------------------------------------------------------------------
(* The invariant. *)
LEMMA InitHolds == Init => IInv
<1> SUFFICES ASSUME Init PROVE IInv
  OBVIOUS
<1> USE DEF Init
<1>1. 0 \in 0..MaxTurns /\ 0 \in TurnNumbers /\ MaxTurns # 0 /\ 1..0 = {}
  BY MaxTurnsAssumption DEF TurnNumbers
<1>2. "idle" \in Nodes /\ "idle" \notin AgentNodes
  BY AgentNodesAre DEF Nodes
<1>3. NewNegotiation \in NegotiationGraphState
  BY <1>1 DEF NewNegotiation, NegotiationGraphState
<1>4. CragSound
  BY NoGraph DEF CragSound, CragTypeOK, NodesAreReady, AnswersComeWithTheirEvidence
<1>5. NoQuestion \in LearnerStates
  BY LimitsAssumption DEF NoQuestion, LearnerStates
<1>6. /\ learner.node = "idle" /\ learner.succeeded = {} /\ learner.sources = {}
      /\ learner.pending = 0 /\ learner.tool_calls = 0
  BY DEF NoQuestion
<1>7. TypeOK
  BY <1>1, <1>2, <1>3, <1>4, <1>5 DEF TypeOK, CragSound
<1>8. OneAtATime /\ AgentIsSound /\ TurnIsBudgeted /\ TurnIsUnderWay
  BY <1>2, <1>6 DEF OneAtATime, AgentIsSound, TurnIsBudgeted, TurnIsUnderWay
<1>9. LearnerIsSound /\ QuestionIsBudgeted
  BY <1>6 DEF LearnerIsSound, QuestionIsBudgeted
<1>10. ModelCallsAreBounded
  BY <1>6, CragCallsAreANumber DEF ModelCallsAreBounded, TurnCalls
<1>11. RowIsSettled
  <2>1. /\ Stored = NewNegotiation /\ simulation.status = "active"
        /\ Stored.turn_count = 0 /\ Stored.response = 0 /\ Stored.evaluation = 0
        /\ Stored.coach_advice = 0 /\ Stored.final_evaluation = 0 /\ Stored.phase = "opening"
        /\ \A a \in Agents : Stored.evidence_ledger[a] = {}
    BY DEF Stored, NewNegotiation
  <2> QED
    BY <1>1, <2>1, LedgersAre DEF RowIsSettled, TurnsAreWhole, LedgersHoldEveryTurn
<1> QED
  BY <1>4, <1>7, <1>8, <1>9, <1>10, <1>11 DEF IInv

LEMMA NothingMovesKeeps == IInv /\ UNCHANGED vars => IInv'
<1> SUFFICES ASSUME IInv, UNCHANGED vars PROVE IInv'
  OBVIOUS
<1>1. /\ crag' = crag /\ calls' = calls /\ learner' = learner /\ simulation' = simulation
      /\ negotiation' = negotiation /\ node' = node /\ agent' = agent /\ turns' = turns
  BY DEF vars
<1>2. CragSound' /\ TypeOK'
  BY <1>1, SameGraphIsSound DEF IInv, TypeOK, CragTypeOK
<1>3. OneAtATime' /\ AgentIsSound'
  BY <1>1 DEF IInv, OneAtATime, CragAwaited, AgentIsSound, Stored, ThisTurn
<1>4. LearnerIsSound' /\ QuestionIsBudgeted'
  <2>1. RetrievalTool' = RetrievalTool /\ _tool_names_for_metadata' = _tool_names_for_metadata
    BY <1>1, SameTools
  <2> QED
    BY <1>1, <2>1 DEF IInv, LearnerIsSound, QuestionIsBudgeted, FinishedTools
<1>5. TurnIsBudgeted' /\ ModelCallsAreBounded'
  BY <1>1 DEF IInv, TurnIsBudgeted, AgentAhead, ModelCallsAreBounded
<1>6. TurnIsUnderWay'
  BY <1>1 DEF IInv, TurnIsUnderWay, Progress, LedgersProgress, Routed, Stamp, Counted,
     Responded, Evaluated, Advised, FinallyEvaluated, Another, ThisTurn
<1>7. RowIsSettled'
  BY <1>1 DEF IInv, RowIsSettled, TurnsAreWhole, LedgersHoldEveryTurn, Stored
<1> QED
  BY <1>2, <1>3, <1>4, <1>5, <1>6, <1>7 DEF IInv

LEMMA StepKeeps == IInv /\ [Next]_vars => IInv'
BY AgentStepKeeps, GraphStepKeeps, QuestionStepKeeps, NothingMovesKeeps
   DEF Next, TurnNext, NegotiationOver

LEMMA Invariance == Spec => []IInv
BY InitHolds, StepKeeps, PTL DEF Spec

-----------------------------------------------------------------------------
(* Results. *)

(* Between the student's message and the stored row, the graphs, their     *)
(* agents and the learner only ever hold what their states declare.        *)
THEOREM NegotiationTypesHold == Spec => []TypeOK
<1>1. IInv => TypeOK
  BY DEF IInv
<1> QED
  BY <1>1, Invariance, PTL

(* For every limit on turns: a stored turn is a whole one, whatever failed *)
(* and fell back in it, and a completed one says why it ended.             *)
THEOREM TurnsStayWhole == Spec => []TurnsAreWhole
<1>1. IInv => TurnsAreWhole
  BY DEF IInv, RowIsSettled
<1> QED
  BY <1>1, Invariance, PTL

(* The ledgers of the agents go through projections, copies and merges and *)
(* lose no turn.                                                           *)
THEOREM LedgersStayComplete == Spec => []LedgersHoldEveryTurn
<1>1. IInv => LedgersHoldEveryTurn
  BY DEF IInv, RowIsSettled
<1> QED
  BY <1>1, Invariance, PTL

(* A turn and a question have budgets of model calls that no combination   *)
(* of repairs, fallbacks, rewrites and tools exceeds.                      *)
THEOREM CallsStayBounded == Spec => []ModelCallsAreBounded
<1>1. IInv => ModelCallsAreBounded
  BY DEF IInv
<1> QED
  BY <1>1, Invariance, PTL

(* The CRAG graph keeps its promise to whoever invoked it, coach,          *)
(* evaluator or learner, one invocation after the other.                   *)
THEOREM EvidenceStaysWithItsAnswer == Spec => []AnswersComeWithTheirEvidence
<1>1. IInv => AnswersComeWithTheirEvidence
  BY DEF IInv, CragSound
<1> QED
  BY <1>1, Invariance, PTL

(* The learner's response names its tools and shows sources of the graph   *)
(* only, for every number of messages and tool calls before it.            *)
THEOREM ResponsesAccountForThemselves == Spec => []LearnerResponsesAccountForThemselves
<1>1. IInv => LearnerResponsesAccountForThemselves
  BY DEF IInv, LearnerIsSound, LearnerResponsesAccountForThemselves
<1> QED
  BY <1>1, Invariance, PTL

(* Only the write at the end of a turn is seen from outside, as a round    *)
(* below the limit or the end of the simulation.                           *)
LEMMA StepImplements == IInv /\ [Next]_vars => [Protocol!ProtocolNext]_(Protocol!protocolVars)
<1> SUFFICES ASSUME IInv, [Next]_vars
             PROVE  Protocol!ProtocolNext \/ UNCHANGED Protocol!protocolVars
  OBVIOUS
<1>1. CASE UNCHANGED simulation
  BY <1>1 DEF Protocol!protocolVars
<1>2. CASE update_simulation /\ ~UNCHANGED simulation
  <2> DEFINE state == [negotiation EXCEPT !.requested_action = "none", !.acceptance = FALSE]
  <2>1. node = "store" /\ node # "idle" /\ simulation' = AfterGraph(state)
    BY <1>2 DEF update_simulation
  <2>2. /\ turns \in 0..MaxTurns /\ negotiation \in NegotiationGraphState /\ turns \in Nat
        /\ Progress /\ Routed /\ Stored.turn_count = turns
        /\ simulation.status \in {"active", "paused"}
    BY <2>1, RowWaits
  <2>3. /\ state.turn_count = negotiation.turn_count /\ state.phase = negotiation.phase
        /\ state.should_pause = negotiation.should_pause
    BY <2>2 DEF NegotiationGraphState
  <2> HIDE DEF state
  <2>4. /\ simulation'.status = _status_after_graph(state)
        /\ simulation'.negotiation_state.turn_count = negotiation.turn_count
    BY <2>1, <2>3 DEF AfterGraph
  <2>5. CASE Another
    <3>1. simulation'.status = "paused" /\ negotiation.turn_count = turns + 1 /\ turns < MaxTurns
      BY <2>1, <2>2, <2>3, <2>4, <2>5 DEF _status_after_graph, Another, Routed, Progress, Stamp,
         Counted, Responded, ThisTurn
    <3> QED
      BY <2>2, <2>4, <3>1 DEF Stored, Protocol!ProtocolNext, Protocol!AnotherRound,
         Protocol!Runnable
  <2>6. CASE ~Another
    <3>1. simulation'.status = "completed" /\ negotiation.turn_count = turns
      BY <2>1, <2>2, <2>3, <2>4, <2>6 DEF _status_after_graph, Another, Progress, Stamp, Counted
    <3> QED
      BY <2>2, <2>4, <3>1 DEF Stored, Protocol!ProtocolNext, Protocol!LastTurn,
         Protocol!Runnable
  <2> QED
    BY <2>5, <2>6
<1>3. Next /\ ~update_simulation => UNCHANGED simulation
  BY DEF Next, TurnNext, AgentNext, GraphNext, AnswerQuestion, NegotiationOver, vars,
     NothingIsStored,
     submit_simulation_turn, submit_simulation_proxy_turn, ask_simulation_learner_srvc,
     OnlyTheAgentMoves, coach_call_rag, evaluator_call_rag, RunCrag, CallRag, SkipRag,
     node_call_rag, Generates, Repairs, FallsBack,
     node_generate_user_proxy_response, node_repair_user_proxy_response,
     node_fallback_user_proxy_response, node_generate_counterpart_response,
     node_repair_counterpart_response, node_fallback_counterpart_response,
     node_generate_coach_advice, node_repair_coach_advice, node_fallback_coach_advice,
     node_generate_evaluator_response, node_repair_evaluator_response,
     node_fallback_evaluator_response, node_classify_intent,
     invoke_user_proxy_turn, ProxyResponseWasEmpty, Goes, node_prepare_orchestrator_context,
     intent_classifier_node, counterpart_node, node_complete_counterpart_turn, evaluator_node,
     coach_node, node_pause_for_user, node_prepare_final_evaluation, node_finalize_negotiation
<1> QED
  BY <1>1, <1>2, <1>3 DEF vars

(* Every negotiation is one of TurnProtocol, for every limit on turns.     *)
THEOREM NegotiationImplementsTurnProtocol == Spec => ImplementsTurnProtocol
<1>1. Init => Protocol!ProtocolInit
  BY DEF Init, NewNegotiation, Protocol!ProtocolInit
<1> QED
  BY <1>1, Invariance, StepImplements, PTL DEF Spec, ImplementsTurnProtocol, Protocol!ProtocolSpec
=============================================================================

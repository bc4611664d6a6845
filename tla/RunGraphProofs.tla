--------------------------- MODULE RunGraphProofs ---------------------------
(***************************************************************************)
(* Theorems about RunGraph, for every set of passages, budgets, planner    *)
(* actions and recursion limit.                                            *)
(***************************************************************************)
EXTENDS RunGraph, SequenceTheorems, TLAPS

EventType == [sequence : Nat, event_type : EventTypes]

\* Emit appends records of the right type.
LEMMA EmitAppends ==
  ASSUME events \in Seq(EventType), NEW types \in Seq(EventTypes), Emit(types)
  PROVE  events' \in Seq(EventType)
<1> DEFINE new == [i \in 1..Len(types) |->
                     [sequence |-> Len(events) + i - 1, event_type |-> types[i]]]
<1>1. Len(types) \in Nat /\ Len(events) \in Nat
  BY LenProperties
<1>2. \A i \in 1..Len(types) : types[i] \in EventTypes
  BY ElementOfSeq
<1>3. new \in [1..Len(types) -> EventType]
  BY <1>1, <1>2 DEF EventType
<1>4. events' = events \o new
  BY DEF Emit
<1> HIDE DEF new
<1>5. new \in Seq(EventType)
  BY <1>1, <1>3, SeqDef
<1> QED
  BY <1>4, <1>5, ConcatProperties, Zenon

\* Every step leaves the events alone or appends some of the known types.
LEMMA StepEmits ==
  ASSUME [Next]_vars
  PROVE  \/ UNCHANGED events
         \/ \E types \in Seq(EventTypes) : Emit(types)
<1>1. \A a \in EventTypes : <<a>> \in Seq(EventTypes)
  OBVIOUS
<1>2. \A a, b \in EventTypes : <<a, b>> \in Seq(EventTypes)
  OBVIOUS
<1>3. \A a, b \in EventTypes : <<a>> \o <<b>> \in Seq(EventTypes)
  BY <1>1, ConcatProperties
<1>4. CASE InitializeRun
  <2>1. <<"run_initialized">> \in Seq(EventTypes)
    BY <1>1 DEF EventTypes
  <2>2. <<"run_initialized", "guardrail_rejected">> \in Seq(EventTypes)
    BY <1>2 DEF EventTypes
  <2> QED
    BY <1>4, <2>1, <2>2, Zenon DEF InitializeRun
<1>5. CASE ControllerAbstains
  <2>1. /\ <<"controller_plan_created">> \in Seq(EventTypes)
        /\ <<"budget_exceeded_before_planning">> \in Seq(EventTypes)
    BY <1>1 DEF EventTypes
  <2> QED
    BY <1>5, <2>1, Zenon DEF ControllerAbstains
<1>6. ASSUME NEW byRule, NEW byLLM, NEW last \in EventTypes, Plan(byRule, byLLM, <<last>>)
      PROVE  \E types \in Seq(EventTypes) : Emit(types)
  <2>1. <<last>> \in Seq(EventTypes)
    BY <1>1
  <2>2. <<"plan_validation_failed">> \o <<last>> \in Seq(EventTypes)
    BY <1>3 DEF EventTypes
  <2> QED
    BY <1>6, <2>1, <2>2, Zenon DEF Plan
<1>7. CASE ControllerDecide
  <2>1. "controller_plan_created" \in EventTypes
    BY DEF EventTypes
  <2> QED
    BY <1>6, <1>7, <2>1, Zenon DEF ControllerDecide
<1>8. CASE ControllerRefine
  <2>1. "controller_plan_refined" \in EventTypes
    BY DEF EventTypes
  <2> QED
    BY <1>6, <1>8, <2>1, Zenon DEF ControllerRefine
<1>9. CASE RetrievalAgent
  <2>1. /\ <<"budget_exceeded_before_retrieval">> \in Seq(EventTypes)
        /\ <<"acquisition_executed">> \in Seq(EventTypes)
    BY <1>1 DEF EventTypes
  <2> QED
    BY <1>9, <2>1, Zenon DEF RetrievalAgent
<1>10. CASE GenerateAnswerAbstains
  <2>1. /\ <<"generation_budget_exceeded">> \in Seq(EventTypes)
        /\ <<"generation_abstained_no_llm">> \in Seq(EventTypes)
    BY <1>1 DEF EventTypes
  <2> QED
    BY <1>10, <2>1, Zenon DEF GenerateAnswerAbstains
<1>11. CASE GenerateAnswer
  <2>1. /\ <<"answer_generated">> \in Seq(EventTypes)
        /\ <<"output_guardrail_rejected">> \in Seq(EventTypes)
    BY <1>1 DEF EventTypes
  <2>2. PICK allowed \in BOOLEAN :
          Emit(IF allowed THEN <<"answer_generated">> ELSE <<"output_guardrail_rejected">>)
    BY <1>11, Zenon DEF GenerateAnswer
  <2> QED
    BY <2>1, <2>2, Zenon
<1>12. ASSUME NEW t \in EventTypes, Emit(<<t>>)
       PROVE  \E types \in Seq(EventTypes) : Emit(types)
  BY <1>1, <1>12, Zenon
<1>13. /\ "memory_loaded" \in EventTypes /\ "acquisition_stage_routed" \in EventTypes
       /\ "evidence_judged" \in EventTypes /\ "context_constructed" \in EventTypes
       /\ "run_persisted" \in EventTypes /\ "clarification_terminal_reached" \in EventTypes
       /\ "abstention_terminal_reached" \in EventTypes
       /\ "conflicting_terminal_reached" \in EventTypes
  BY DEF EventTypes
<1>14. CASE \/ LoadSessionMemory \/ AcquisitionStage \/ EvidenceJudge \/ ContextBuilder
            \/ PersistTurn \/ ClarificationTerminal \/ AbstentionTerminal
            \/ ConflictingTerminal
  BY <1>12, <1>13, <1>14, Zenon
     DEF LoadSessionMemory, AcquisitionStage, EvidenceJudge, ContextBuilder, PersistTurn,
         ClarificationTerminal, AbstentionTerminal, ConflictingTerminal, Terminal
<1>15. CASE \/ RetrievalFails \/ TerminalReady \/ ContextBuilderFails
            \/ GenerateAnswerRaises \/ RecursionLimitReached \/ Finished \/ UNCHANGED vars
  BY <1>15 DEF RetrievalFails, TerminalReady, ContextBuilderFails, GenerateAnswerRaises,
               RecursionLimitReached, Finished, vars
<1> QED
  BY <1>4, <1>5, <1>7, <1>8, <1>9, <1>10, <1>11, <1>14, <1>15 DEF Next

HistoryEntry == [action : Actions, verdict : Verdicts]

\* The controller only ever proposes actions of the schema, and the validator
\* keeps it so.
LEMMA ProposalsAreActions ==
  /\ DecidedByRule \subseteq Actions
  /\ RefinedByRule \subseteq Actions
  /\ DecidedByLLM \subseteq Actions
  /\ RefinedByLLM \subseteq Actions
  /\ \A action \in Actions : \A outcome \in Validated(action) :
       outcome.action \in Actions /\ outcome.valid \in BOOLEAN
<1>1. DecidedByRule \subseteq Actions
  BY DEF DecidedByRule, Actions, RetrievalActions, SearchActions, TerminalActions
<1>2. RefinedByRule \subseteq Actions
  BY DEF RefinedByRule, Actions, RetrievalActions, SearchActions, TerminalActions
<1>3. "vector_search" \in Actions /\ "hybrid_search" \in Actions
  BY DEF Actions, RetrievalActions, SearchActions, TerminalActions
<1>4. DecidedByLLM \subseteq Actions /\ RefinedByLLM \subseteq Actions
  BY PlannerAssumption, <1>3 DEF DecidedByLLM, RefinedByLLM, Proposed
<1>5. ASSUME NEW action \in Actions, NEW outcome \in Validated(action)
      PROVE  outcome.action \in Actions /\ outcome.valid \in BOOLEAN
  <2>1. \/ outcome = Accepted(action)
        \/ outcome = Replaced("vector_search")
        \/ outcome = Replaced("abstain")
    BY <1>5, Zenon DEF Validated
  <2>2. "abstain" \in Actions
    BY DEF Actions, TerminalActions
  <2>3. \A a : /\ Accepted(a).action = a /\ Accepted(a).valid \in BOOLEAN
               /\ Replaced(a).action = a /\ Replaced(a).valid \in BOOLEAN
    BY Zenon DEF Accepted, Replaced
  <2> QED
    BY <1>3, <1>5, <2>1, <2>2, <2>3, Zenon
<1> QED
  BY <1>1, <1>2, <1>3, <1>4, <1>5

\* A planning step appends one entry to the history and may charge one call.
LEMMA PlanTypes ==
  ASSUME TypeOK, NEW byRule \in SUBSET Actions, NEW byLLM \in SUBSET Actions, NEW types,
         Plan(byRule, byLLM, types)
  PROVE  /\ plan' \in Actions
         /\ history' = Append(history, [action |-> plan', verdict |-> "none"])
         /\ history' \in Seq(HistoryEntry)
         /\ metered' \in [Roles -> Nat]
         /\ metered'["generator"] = metered["generator"]
<1>1. PICK useLLM \in BOOLEAN, action \in Actions :
        \E outcome \in Validated(action) :
          /\ plan' = outcome.action
          /\ history' = Append(history, [action |-> outcome.action, verdict |-> "none"])
          /\ metered' = [metered EXCEPT !["planner"] = @ + (IF useLLM THEN 1 ELSE 0)]
  <2>1. request.llm \in BOOLEAN
    BY DEF TypeOK, Requests
  <2>2. PICK useLLM \in {FALSE, request.llm /\ ~AtIterationLimit} :
          \E action \in (IF useLLM THEN byLLM ELSE byRule) :
            \E outcome \in Validated(action) :
              /\ plan' = outcome.action
              /\ history' = Append(history, [action |-> outcome.action, verdict |-> "none"])
              /\ metered' = [metered EXCEPT !["planner"] = @ + (IF useLLM THEN 1 ELSE 0)]
    BY Zenon DEF Plan
  <2>3. useLLM \in BOOLEAN
    BY <2>1, <2>2, Zenon
  <2> QED
    BY <2>2, <2>3
<1>2. plan' \in Actions
  BY <1>1, ProposalsAreActions
<1>3. history' = Append(history, [action |-> plan', verdict |-> "none"])
  BY <1>1
<1>4. history \in Seq(HistoryEntry) /\ [action |-> plan', verdict |-> "none"] \in HistoryEntry
  BY <1>2 DEF TypeOK, HistoryEntry, Verdicts
<1>5. history' \in Seq(HistoryEntry)
  BY <1>3, <1>4
<1>6. metered' \in [Roles -> Nat] /\ metered'["generator"] = metered["generator"]
  BY <1>1 DEF TypeOK, Roles
<1> QED
  BY <1>2, <1>3, <1>5, <1>6

\* Recording a verdict on the last entry keeps the history's type and length.
LEMMA JudgedHistory ==
  ASSUME history \in Seq(HistoryEntry), NEW d \in Verdicts
  PROVE  [history EXCEPT ![Len(history)].verdict = d] \in Seq(HistoryEntry)
<1>1. Len(history) \in Nat /\ history \in [1..Len(history) -> HistoryEntry]
  BY LenProperties
<1>2. [history EXCEPT ![Len(history)].verdict = d] \in [1..Len(history) -> HistoryEntry]
  BY <1>1 DEF HistoryEntry
<1> QED
  BY <1>1, <1>2, SeqDef

\* The verdicts of the judge are assessments, and say so.
LEMMA JudgeTypes ==
  ASSUME TypeOK, EvidenceJudge
  PROVE  /\ assessment' \in [decision : Decisions, promoted : BOOLEAN]
         /\ Step("evidence_judge", RouteAfterJudge(assessment'.decision))
         /\ history' = [history EXCEPT ![Len(history)].verdict = assessment'.decision]
         /\ metered' \in [Roles -> Nat]
         /\ metered'["generator"] = metered["generator"]
         /\ UNCHANGED <<rejected, plan, acquisitionVars, outcomeVars>>
<1>1. /\ FastVerdicts \subseteq [decision : Decisions, promoted : BOOLEAN]
      /\ LLMVerdicts \subseteq [decision : Decisions, promoted : BOOLEAN]
      /\ HeuristicVerdicts \subseteq [decision : Decisions, promoted : BOOLEAN]
  <2>1. \A d \in Decisions : Judged(d) \in [decision : Decisions, promoted : BOOLEAN]
    BY DEF Judged
  <2>2. FastVerdicts \subseteq [decision : Decisions, promoted : BOOLEAN]
    <3>1. CASE plan \in TerminalActions
      BY <2>1, <3>1 DEF FastVerdicts, TerminalActions, Decisions
    <3>2. CASE plan \notin TerminalActions /\ evidence = {}
      BY <2>1, <3>2 DEF FastVerdicts, TerminalActions, Decisions
    <3>3. CASE plan \notin TerminalActions /\ evidence # {}
      BY <3>3 DEF FastVerdicts, TerminalActions
    <3> QED
      BY <3>1, <3>2, <3>3
  <2>3. LLMVerdicts \subseteq [decision : Decisions, promoted : BOOLEAN]
    <3>1. ASSUME NEW v \in LLMVerdicts
          PROVE  \/ \E d \in Decisions : v = Judged(d)
                 \/ v = [decision |-> "sufficient", promoted |-> TRUE]
      BY <3>1 DEF LLMVerdicts
    <3>2. [decision |-> "sufficient", promoted |-> TRUE] \in [decision : Decisions, promoted : BOOLEAN]
      BY DEF Decisions
    <3> QED
      BY <2>1, <3>1, <3>2, Zenon
  <2>4. HeuristicVerdicts \subseteq [decision : Decisions, promoted : BOOLEAN]
    BY <2>1 DEF HeuristicVerdicts, Decisions
  <2> QED
    BY <2>2, <2>3, <2>4
<1>2. PICK byLLM \in {FALSE, request.llm /\ FastVerdicts = {}} :
        \E a \in (IF FastVerdicts # {} THEN FastVerdicts
                 ELSE IF byLLM THEN LLMVerdicts ELSE HeuristicVerdicts) :
          /\ Step("evidence_judge", RouteAfterJudge(a.decision))
          /\ assessment' = a
          /\ history' = [history EXCEPT ![Len(history)].verdict = a.decision]
          /\ metered' = [metered EXCEPT !["judge"] = @ + (IF byLLM THEN 1 ELSE 0)]
          /\ UNCHANGED <<rejected, plan, acquisitionVars, outcomeVars>>
  BY Zenon DEF EvidenceJudge
<1>3. /\ assessment' \in [decision : Decisions, promoted : BOOLEAN]
      /\ Step("evidence_judge", RouteAfterJudge(assessment'.decision))
      /\ history' = [history EXCEPT ![Len(history)].verdict = assessment'.decision]
      /\ metered' = [metered EXCEPT !["judge"] = @ + (IF byLLM THEN 1 ELSE 0)]
      /\ UNCHANGED <<rejected, plan, acquisitionVars, outcomeVars>>
  BY <1>1, <1>2, Zenon
<1>4. metered' \in [Roles -> Nat] /\ metered'["generator"] = metered["generator"]
  BY <1>3 DEF TypeOK, Roles
<1> QED
  BY <1>3, <1>4

(***************************************************************************)
(* The type invariant, in the groups of variables the actions change.      *)
(***************************************************************************)

FlowTyped ==
  /\ node \in Nodes \union {"end", "failed"}
  /\ steps \in 0..RecursionLimit
  /\ failure \in Failures \union {"none"}
  /\ request \in Requests
  /\ usage = ZeroUsage

PlanTyped ==
  /\ rejected \in BOOLEAN
  /\ plan \in Actions \union {"none"}
  /\ history \in Seq(HistoryEntry)
  /\ metered \in [Roles -> Nat]

EvidenceTyped ==
  /\ evidence \subseteq Items
  /\ assessment \in [decision : Verdicts, promoted : BOOLEAN]
  /\ iterations \in Nat
  /\ toolCalls \in Nat

OutcomeTyped ==
  /\ context \in [built : BOOLEAN, items : SUBSET Items]
  /\ answer \in [by : {"nobody", "graph", "generator"}, citations : SUBSET CitationIds]
  /\ status \in Statuses

LEMMA TypeParts ==
  TypeOK <=> FlowTyped /\ PlanTyped /\ EvidenceTyped /\ OutcomeTyped /\ events \in Seq(EventType)
BY Zenon DEF TypeOK, FlowTyped, PlanTyped, EvidenceTyped, OutcomeTyped, HistoryEntry, EventType

\* A superstep moves to a node of the graph and counts itself.
LEMMA StepFlow ==
  ASSUME FlowTyped, NEW here, NEW next \in Nodes \union {"end"}, Step(here, next)
  PROVE  FlowTyped'
BY RecursionAssumption DEF FlowTyped, Step, inputVars

LEMMA RaiseFlow ==
  ASSUME FlowTyped, NEW here, NEW kind \in Failures, Raise(here, kind)
  PROVE  FlowTyped'
BY RecursionAssumption DEF FlowTyped, Raise, inputVars

LEMMA RoutesAreNodes ==
  /\ \A action : RouteAfterController(action) \in Nodes
  /\ \A decision : RouteAfterJudge(decision) \in Nodes
<1>1. \A action : RouteAfterController(action) \in Nodes
  BY Zenon DEF RouteAfterController, Nodes
<1>2. \A decision : RouteAfterJudge(decision) \in Nodes
  BY Zenon DEF RouteAfterJudge, Nodes
<1> QED
  BY <1>1, <1>2

\* What the generator's branch writes: an answer with checked citations, or the
\* abstention of the output guardrail.
LEMMA AnswerChosen ==
  ASSUME GenerateAnswer
  PROVE  \E allowed \in BOOLEAN, verified \in SUBSET CitationIds :
           /\ verified \subseteq {EvidenceId(item) : item \in context.items}
           /\ evidence # {} => verified \subseteq EvidenceIds
           /\ answer' = IF allowed THEN [by |-> "generator", citations |-> verified]
                                   ELSE [by |-> "graph", citations |-> {}]
           /\ status' = IF allowed THEN "answer" ELSE "abstention"
<1> DEFINE kept(cited) == Grounded(cited, {EvidenceId(item) : item \in context.items})
           verified(cited) == IF evidence = {} THEN kept(cited)
                                               ELSE kept(cited) \intersect EvidenceIds
<1>1. PICK cited \in SUBSET CitationIds, allowed \in BOOLEAN :
        /\ answer' = IF allowed THEN [by |-> "generator", citations |-> verified(cited)]
                                ELSE [by |-> "graph", citations |-> {}]
        /\ status' = IF allowed THEN "answer" ELSE "abstention"
  BY Zenon DEF GenerateAnswer
<1>2. /\ verified(cited) \in SUBSET CitationIds
      /\ verified(cited) \subseteq {EvidenceId(item) : item \in context.items}
      /\ evidence # {} => verified(cited) \subseteq EvidenceIds
  BY DEF Grounded
<1> QED
  BY <1>1, <1>2

LEMMA TypeInit == Init => TypeOK
<1> SUFFICES ASSUME Init PROVE TypeOK
  OBVIOUS
<1>1. FlowTyped
  BY RecursionAssumption DEF Init, FlowTyped, Nodes, Requests
<1>2. PlanTyped /\ events \in Seq(EventType)
  <2>1. <<>> \in Seq(HistoryEntry) /\ <<>> \in Seq(EventType)
    BY EmptySeq
  <2>2. metered \in [Roles -> Nat]
    BY DEF Init
  <2> QED
    BY <2>1, <2>2, Zenon DEF Init, PlanTyped
<1>3. EvidenceTyped
  BY DEF Init, EvidenceTyped, NoAssessment, Verdicts
<1>4. OutcomeTyped
  BY DEF Init, OutcomeTyped, NoContext, NoAnswer, Statuses
<1> QED
  BY <1>1, <1>2, <1>3, <1>4, TypeParts

LEMMA TypeNext == TypeOK /\ [Next]_vars => TypeOK'
<1> SUFFICES ASSUME TypeOK, [Next]_vars PROVE TypeOK'
  OBVIOUS
<1>1. FlowTyped /\ PlanTyped /\ EvidenceTyped /\ OutcomeTyped /\ events \in Seq(EventType)
  BY TypeParts
<1>2. (events \in Seq(EventType))'
  BY <1>1, StepEmits, EmitAppends
<1> SUFFICES FlowTyped' /\ PlanTyped' /\ EvidenceTyped' /\ OutcomeTyped'
  BY <1>2, Zenon DEF TypeOK, FlowTyped, PlanTyped, EvidenceTyped, OutcomeTyped, HistoryEntry, EventType
<1>3. CASE InitializeRun
  <2>1. FlowTyped'
    BY <1>1, <1>3, StepFlow DEF InitializeRun, Nodes
  <2>2. PlanTyped' /\ EvidenceTyped'
    BY <1>1, <1>3 DEF InitializeRun, PlanTyped, EvidenceTyped, planVars, acquisitionVars
  <2>3. OutcomeTyped'
    BY <1>1, <1>3 DEF InitializeRun, OutcomeTyped, Statuses
  <2> QED
    BY <2>1, <2>2, <2>3
<1>4. CASE LoadSessionMemory
  <2>1. FlowTyped'
    BY <1>1, <1>4, StepFlow DEF LoadSessionMemory, Nodes
  <2> QED
    BY <1>1, <1>4, <2>1 DEF LoadSessionMemory, PlanTyped, EvidenceTyped, OutcomeTyped,
                            planVars, acquisitionVars, outcomeVars
<1>5. CASE ControllerAbstains
  <2>1. FlowTyped'
    BY <1>1, <1>5, StepFlow, RoutesAreNodes DEF ControllerAbstains
  <2>2. "abstain" \in Actions /\ [action |-> "abstain", verdict |-> "abstain"] \in HistoryEntry
    BY DEF HistoryEntry, Actions, TerminalActions, Verdicts, Decisions
  <2>3. PlanTyped'
    BY <1>1, <1>5, <2>2 DEF ControllerAbstains, PlanTyped
  <2> QED
    BY <1>1, <1>5, <2>1, <2>3 DEF ControllerAbstains, EvidenceTyped, OutcomeTyped,
                                  acquisitionVars, outcomeVars
<1>6. CASE ControllerDecide
  <2>1. FlowTyped'
    BY <1>1, <1>6, StepFlow, RoutesAreNodes DEF ControllerDecide
  <2>2. PlanTyped'
    <3>1. plan' \in Actions /\ history' \in Seq(HistoryEntry) /\ metered' \in [Roles -> Nat]
      BY <1>6, PlanTypes, ProposalsAreActions DEF ControllerDecide
    <3> QED
      BY <1>1, <1>6, <3>1 DEF ControllerDecide, PlanTyped
  <2> QED
    BY <1>1, <1>6, <2>1, <2>2 DEF ControllerDecide, EvidenceTyped, OutcomeTyped,
                                  acquisitionVars, outcomeVars
<1>7. CASE AcquisitionStage
  <2>1. FlowTyped'
    BY <1>1, <1>7, StepFlow DEF AcquisitionStage, Nodes
  <2> QED
    BY <1>1, <1>7, <2>1 DEF AcquisitionStage, PlanTyped, EvidenceTyped, OutcomeTyped,
                            planVars, acquisitionVars, outcomeVars
<1>8. CASE RetrievalAgent
  <2>1. FlowTyped'
    BY <1>1, <1>8, StepFlow DEF RetrievalAgent, Nodes
  <2>2. EvidenceTyped'
    <3>1. \A items \in Acquirable : items \subseteq Items
      <4>1. \A s \in SUBSET Content : [content : s, source : {"search"}] \subseteq Items
        BY DEF Items
      <4>2. \A c \in Content : {[content |-> c, source |-> "tool"]} \subseteq Items
        BY DEF Items
      <4> QED
        BY <4>1, <4>2, Zenon DEF Acquirable
    <3>2. evidence' \subseteq Items
      BY <1>1, <1>8, <3>1 DEF RetrievalAgent, AcquireEvidence, Deduplicated, EvidenceTyped, acquisitionVars
    <3>3. iterations' \in Nat /\ toolCalls' \in Nat
      BY <1>1, <1>8 DEF RetrievalAgent, CountAcquisition, EvidenceTyped, acquisitionVars
    <3> QED
      BY <1>1, <1>8, <3>2, <3>3 DEF RetrievalAgent, EvidenceTyped
  <2> QED
    BY <1>1, <1>8, <2>1, <2>2 DEF RetrievalAgent, PlanTyped, OutcomeTyped, planVars, outcomeVars
<1>9. CASE RetrievalFails
  <2>1. FlowTyped'
    BY <1>1, <1>9, RaiseFlow DEF RetrievalFails, Failures
  <2> QED
    BY <1>1, <1>9, <2>1 DEF RetrievalFails, PlanTyped, EvidenceTyped, OutcomeTyped,
                            planVars, acquisitionVars, outcomeVars
<1>10. CASE EvidenceJudge
  <2>1. FlowTyped'
    BY <1>1, <1>10, JudgeTypes, StepFlow, RoutesAreNodes
  <2>2. assessment'.decision \in Verdicts /\ assessment' \in [decision : Verdicts, promoted : BOOLEAN]
    BY <1>10, JudgeTypes DEF Verdicts
  <2>3. history' \in Seq(HistoryEntry)
    BY <1>1, <1>10, <2>2, JudgeTypes, JudgedHistory DEF PlanTyped
  <2> QED
    BY <1>1, <1>10, <2>1, <2>2, <2>3, JudgeTypes
       DEF PlanTyped, EvidenceTyped, OutcomeTyped, acquisitionVars, outcomeVars
<1>11. CASE ControllerRefine
  <2>1. FlowTyped'
    BY <1>1, <1>11, StepFlow DEF ControllerRefine, Nodes
  <2>2. PlanTyped'
    <3>1. plan' \in Actions /\ history' \in Seq(HistoryEntry) /\ metered' \in [Roles -> Nat]
      BY <1>11, PlanTypes, ProposalsAreActions DEF ControllerRefine
    <3> QED
      BY <1>1, <1>11, <3>1 DEF ControllerRefine, PlanTyped
  <2> QED
    BY <1>1, <1>11, <2>1, <2>2 DEF ControllerRefine, EvidenceTyped, OutcomeTyped,
                                   acquisitionVars, outcomeVars
<1>12. CASE TerminalReady
  <2>1. FlowTyped'
    BY <1>1, <1>12, StepFlow DEF TerminalReady, Nodes
  <2>2. OutcomeTyped'
    BY <1>1, <1>12 DEF TerminalReady, OutcomeTyped, Statuses
  <2> QED
    BY <1>1, <1>12, <2>1, <2>2 DEF TerminalReady, PlanTyped, EvidenceTyped, planVars, acquisitionVars
<1>13. CASE ContextBuilder
  <2>1. FlowTyped'
    BY <1>1, <1>13, StepFlow DEF ContextBuilder, Nodes
  <2>2. OutcomeTyped'
    <3>1. PICK kept \in SUBSET evidence : context' = [built |-> TRUE, items |-> kept]
      BY <1>13 DEF ContextBuilder
    <3>2. kept \in SUBSET Items
      BY <1>1, <3>1 DEF EvidenceTyped
    <3>3. context' \in [built : BOOLEAN, items : SUBSET Items]
      BY <3>1, <3>2
    <3> QED
      BY <1>1, <1>13, <3>3 DEF ContextBuilder, OutcomeTyped
  <2> QED
    BY <1>1, <1>13, <2>1, <2>2 DEF ContextBuilder, PlanTyped, EvidenceTyped, planVars, acquisitionVars
<1>14. CASE ContextBuilderFails
  <2>1. FlowTyped'
    BY <1>1, <1>14, RaiseFlow DEF ContextBuilderFails, Failures
  <2> QED
    BY <1>1, <1>14, <2>1 DEF ContextBuilderFails, PlanTyped, EvidenceTyped, OutcomeTyped,
                             planVars, acquisitionVars, outcomeVars
<1>15. CASE GenerateAnswerAbstains
  <2>1. FlowTyped'
    BY <1>1, <1>15, StepFlow DEF GenerateAnswerAbstains, Nodes
  <2>2. OutcomeTyped'
    BY <1>1, <1>15 DEF GenerateAnswerAbstains, OutcomeTyped, Statuses
  <2> QED
    BY <1>1, <1>15, <2>1, <2>2 DEF GenerateAnswerAbstains, PlanTyped, EvidenceTyped,
                                   planVars, acquisitionVars
<1>16. CASE GenerateAnswerRaises
  <2>1. (IF GateOpen THEN "provider" ELSE "policy") \in Failures
    BY Zenon DEF Failures
  <2>2. FlowTyped'
    BY <1>1, <1>16, <2>1, RaiseFlow DEF GenerateAnswerRaises
  <2> QED
    BY <1>1, <1>16, <2>2 DEF GenerateAnswerRaises, PlanTyped, EvidenceTyped, OutcomeTyped,
                             planVars, acquisitionVars, outcomeVars
<1>17. CASE GenerateAnswer
  <2>1. FlowTyped'
    BY <1>1, <1>17, StepFlow DEF GenerateAnswer, Nodes
  <2>2. PlanTyped'
    BY <1>1, <1>17 DEF GenerateAnswer, PlanTyped, Roles, planVars
  <2>3. OutcomeTyped'
    <3>1. PICK allowed \in BOOLEAN, verified \in SUBSET CitationIds :
            /\ answer' = IF allowed THEN [by |-> "generator", citations |-> verified]
                                    ELSE [by |-> "graph", citations |-> {}]
            /\ status' = IF allowed THEN "answer" ELSE "abstention"
      BY <1>17, AnswerChosen
    <3>2. answer' \in [by : {"nobody", "graph", "generator"}, citations : SUBSET CitationIds]
      BY <3>1
    <3>3. status' \in Statuses
      BY <3>1 DEF Statuses
    <3> QED
      BY <1>1, <1>17, <3>2, <3>3 DEF GenerateAnswer, OutcomeTyped
  <2> QED
    BY <1>1, <1>17, <2>1, <2>2, <2>3 DEF GenerateAnswer, EvidenceTyped, acquisitionVars
<1>18. CASE PersistTurn
  <2>1. FlowTyped'
    BY <1>1, <1>18, StepFlow DEF PersistTurn
  <2> QED
    BY <1>1, <1>18, <2>1 DEF PersistTurn, PlanTyped, EvidenceTyped, OutcomeTyped,
                             planVars, acquisitionVars, outcomeVars
<1>19. ASSUME NEW here, NEW outcome \in Statuses, NEW cited \in SUBSET CitationIds, NEW event,
              Terminal(here, outcome, cited, event)
       PROVE  FlowTyped' /\ PlanTyped' /\ EvidenceTyped' /\ OutcomeTyped'
  <2>1. FlowTyped'
    BY <1>1, <1>19, StepFlow DEF Terminal, Nodes
  <2>2. OutcomeTyped'
    BY <1>1, <1>19 DEF Terminal, OutcomeTyped
  <2> QED
    BY <1>1, <1>19, <2>1, <2>2 DEF Terminal, PlanTyped, EvidenceTyped, planVars, acquisitionVars
<1>20. CASE ClarificationTerminal \/ AbstentionTerminal \/ ConflictingTerminal
  <2>1. /\ "clarification" \in Statuses /\ "abstention" \in Statuses /\ "conflicting" \in Statuses
        /\ {} \in SUBSET CitationIds
    BY DEF Statuses
  <2>2. SUBSET EvidenceIds \subseteq SUBSET CitationIds
    BY <1>1 DEF EvidenceTyped, EvidenceIds, EvidenceId, Items, CitationIds
  <2> QED
    BY <1>19, <1>20, <2>1, <2>2 DEF ClarificationTerminal, AbstentionTerminal, ConflictingTerminal
<1>21. CASE RecursionLimitReached
  <2>1. FlowTyped'
    BY <1>1, <1>21 DEF RecursionLimitReached, FlowTyped, Failures, inputVars
  <2> QED
    BY <1>1, <1>21, <2>1 DEF RecursionLimitReached, PlanTyped, EvidenceTyped, OutcomeTyped,
                             planVars, acquisitionVars, outcomeVars
<1>22. CASE Finished \/ UNCHANGED vars
  BY <1>1, <1>22 DEF Finished, vars, FlowTyped, PlanTyped, EvidenceTyped, OutcomeTyped
<1> QED
  BY <1>3, <1>4, <1>5, <1>6, <1>7, <1>8, <1>9, <1>10, <1>11, <1>12, <1>13, <1>14, <1>15,
     <1>16, <1>17, <1>18, <1>20, <1>21, <1>22 DEF Next

\* T1. Every run keeps its state well typed: in particular the steps stay
\* within LangGraph's limit, and the counters are natural numbers even where a
\* budget of the request is negative.
THEOREM TypeCorrect == Spec => []TypeOK
BY TypeInit, TypeNext, PTL DEF Spec

(***************************************************************************)
(* The evidence gate.  GateHolds is not inductive: it speaks of calls that *)
(* were made, and needs to know which verdict can stand at each node of    *)
(* the graph, which is what the routing functions establish.               *)
(***************************************************************************)

VerdictFitsNode ==
  /\ node \in {"initialize_run", "load_session_memory", "controller_decide", "acquisition_stage"}
       => assessment.decision = "none"
  /\ node \in {"retrieval_agent", "evidence_judge"}
       => assessment.decision \in {"none", "insufficient", "conflicting"}
  /\ node = "controller_refine" => assessment.decision \in {"insufficient", "conflicting"}
  /\ node \in {"terminal_ready", "context_builder", "generate_answer"}
       => assessment.decision = "sufficient"
  /\ node = "conflicting_terminal" => assessment.decision = "conflicting"
  /\ node = "clarification_terminal" => assessment.decision \in {"none", "clarification"}
  /\ node = "abstention_terminal" => assessment.decision \notin {"clarification", "conflicting"}

GeneratorFitsNode ==
  /\ node = "generate_answer" => context.built
  /\ node \notin {"persist_turn", "end", "failed"} => metered["generator"] = 0
  /\ metered["generator"] > 0 \/ failure = "provider"
       => assessment.decision = "sufficient" /\ context.built
  /\ failure # "policy"
  /\ failure # "none" => node = "failed"

OutcomeFitsVerdict ==
  node \in {"persist_turn", "end"} =>
    /\ status # "running" /\ answer.by # "nobody"
    /\ status = "answer" <=> answer.by = "generator"
    /\ status = "answer" => metered["generator"] > 0
    /\ status = "conflicting" => assessment.decision = "conflicting"
    /\ status = "clarification" => assessment.decision \in {"none", "clarification"}
    /\ status = "abstention" => assessment.decision \notin {"clarification", "conflicting"}

GateInv == VerdictFitsNode /\ GeneratorFitsNode /\ OutcomeFitsVerdict

LEMMA JudgeRoutes ==
  ASSUME NEW d \in Decisions
  PROVE  \/ d = "sufficient" /\ RouteAfterJudge(d) = "terminal_ready"
         \/ d = "clarification" /\ RouteAfterJudge(d) = "clarification_terminal"
         \/ d \in {"insufficient", "conflicting"} /\ RouteAfterJudge(d) = "controller_refine"
         \/ d = "conflicting" /\ RouteAfterJudge(d) = "conflicting_terminal"
         \/ d \in {"insufficient", "abstain"} /\ RouteAfterJudge(d) = "abstention_terminal"
<1>1. CASE d = "sufficient"
  BY <1>1, Zenon DEF RouteAfterJudge
<1>2. CASE d = "clarification"
  BY <1>2, Zenon DEF RouteAfterJudge
<1>3. CASE d = "insufficient"
  BY <1>3, Zenon DEF RouteAfterJudge
<1>4. CASE d = "conflicting"
  BY <1>4, Zenon DEF RouteAfterJudge
<1>5. CASE d = "abstain"
  BY <1>5, Zenon DEF RouteAfterJudge
<1> QED
  BY <1>1, <1>2, <1>3, <1>4, <1>5 DEF Decisions

LEMMA ControllerRoutes ==
  ASSUME NEW a
  PROVE  RouteAfterController(a) \in {"acquisition_stage", "clarification_terminal", "abstention_terminal"}
BY Zenon DEF RouteAfterController

LEMMA GateInit == Init => GateInv
BY DEF Init, GateInv, VerdictFitsNode, GeneratorFitsNode, OutcomeFitsVerdict, NoAssessment, Roles

LEMMA GateNext == TypeOK /\ GateInv /\ [Next]_vars => GateInv'
<1> SUFFICES ASSUME TypeOK, GateInv, [Next]_vars PROVE GateInv'
  OBVIOUS
<1> USE DEF GateInv, VerdictFitsNode, GeneratorFitsNode, OutcomeFitsVerdict, Step, Raise
<1>1. metered["generator"] \in Nat
  BY DEF TypeOK, Roles
<1>2. CASE InitializeRun
  BY <1>2 DEF InitializeRun
<1>3. CASE LoadSessionMemory \/ AcquisitionStage
  BY <1>3 DEF LoadSessionMemory, AcquisitionStage, outcomeVars
<1>4. CASE ControllerAbstains
  BY <1>4, ControllerRoutes DEF ControllerAbstains, outcomeVars
<1>5. CASE ControllerDecide
  <2>1. metered'["generator"] = metered["generator"]
    BY <1>5, PlanTypes, ProposalsAreActions DEF ControllerDecide
  <2>2. node' \in {"acquisition_stage", "clarification_terminal", "abstention_terminal"}
    BY <1>5, ControllerRoutes DEF ControllerDecide
  <2> QED
    BY <1>5, <2>1, <2>2 DEF ControllerDecide, outcomeVars
<1>6. CASE RetrievalAgent
  BY <1>6 DEF RetrievalAgent, outcomeVars
<1>7. CASE RetrievalFails
  BY <1>7 DEF RetrievalFails, outcomeVars
<1>8. CASE EvidenceJudge
  <2>1. /\ assessment'.decision \in Decisions
        /\ node = "evidence_judge"
        /\ node' = RouteAfterJudge(assessment'.decision)
        /\ metered'["generator"] = metered["generator"]
        /\ UNCHANGED <<failure, context, answer, status>>
    BY <1>8, JudgeTypes DEF outcomeVars
  <2> QED
    BY <1>1, <2>1, JudgeRoutes
<1>9. CASE ControllerRefine
  <2>1. metered'["generator"] = metered["generator"]
    BY <1>9, PlanTypes, ProposalsAreActions DEF ControllerRefine
  <2> QED
    BY <1>9, <2>1 DEF ControllerRefine, outcomeVars
<1>10. CASE TerminalReady
  BY <1>10 DEF TerminalReady
<1>11. CASE ContextBuilder
  BY <1>11 DEF ContextBuilder
<1>12. CASE ContextBuilderFails
  BY <1>12 DEF ContextBuilderFails, outcomeVars
<1>13. CASE GenerateAnswerAbstains
  BY <1>13 DEF GenerateAnswerAbstains
<1>14. CASE GenerateAnswerRaises
  <2>1. GateOpen
    BY <1>14 DEF GenerateAnswerRaises, GateOpen
  <2> QED
    BY <1>14, <2>1 DEF GenerateAnswerRaises, outcomeVars
<1>15. CASE GenerateAnswer
  <2>1. metered'["generator"] = metered["generator"] + 1
    BY <1>15 DEF GenerateAnswer, TypeOK, Roles
  <2>2. \/ status' = "answer" /\ answer'.by = "generator"
        \/ status' = "abstention" /\ answer'.by = "graph"
    BY <1>15, AnswerChosen
  <2>3. node = "generate_answer" /\ node' = "persist_turn" /\ UNCHANGED <<failure, assessment, context>>
    BY <1>15 DEF GenerateAnswer
  <2> QED
    BY <1>1, <2>1, <2>2, <2>3
<1>16. CASE PersistTurn
  BY <1>16 DEF PersistTurn, outcomeVars
<1>17. CASE ClarificationTerminal \/ AbstentionTerminal \/ ConflictingTerminal
  <2>1. /\ UNCHANGED <<assessment, metered, context, failure>>
        /\ node' = "persist_turn"
        /\ answer'.by = "graph"
        /\ \/ node = "clarification_terminal" /\ status' = "clarification"
           \/ node = "abstention_terminal" /\ status' = "abstention"
           \/ node = "conflicting_terminal" /\ status' = "conflicting"
    BY <1>17 DEF ClarificationTerminal, AbstentionTerminal, ConflictingTerminal, Terminal
  <2> QED
    BY <1>1, <2>1
<1>18. CASE RecursionLimitReached
  BY <1>18 DEF RecursionLimitReached, outcomeVars
<1>19. CASE Finished \/ UNCHANGED vars
  BY <1>19 DEF Finished, vars
<1> QED
  BY <1>2, <1>3, <1>4, <1>5, <1>6, <1>7, <1>8, <1>9, <1>10, <1>11, <1>12, <1>13, <1>14,
     <1>15, <1>16, <1>17, <1>18, <1>19 DEF Next

LEMMA GateInductive == Spec => []GateInv
BY GateInit, GateNext, TypeCorrect, PTL DEF Spec

\* T2. Strict evidence before generation: whatever the planner and the judge
\* return, the generator is called only on a sufficient verdict with a context
\* built, and the exceptions of the gate are unreachable.
THEOREM GateIsHeld == Spec => []GateHolds
<1>1. GateInv => GateHolds
  BY DEF GateInv, GeneratorFitsNode, GateHolds
<1> QED
  BY <1>1, GateInductive, PTL

\* T3. A run is stored as answered exactly if the generator wrote its answer.
THEOREM AnsweredIsGenerated == Spec => []AnsweredMeansGenerated
<1>1. GateInv => AnsweredMeansGenerated
  BY DEF GateInv, OutcomeFitsVerdict, AnsweredMeansGenerated
<1> QED
  BY <1>1, GateInductive, PTL

(***************************************************************************)
(* RunGraph implements EvidenceGate.  The judge's node is the abstract     *)
(* Judge, the generator's successful call the abstract Generate, and       *)
(* persist_turn or an exception the abstract Conclude; every other node is *)
(* a stuttering step of the gate.                                          *)
(***************************************************************************)

\* A step that keeps the verdict and the generator's calls, and stays in the
\* graph, is not seen by the gate.
LEMMA QuietSteps ==
  ASSUME node \notin {"end", "failed"}, node' \notin {"end", "failed"},
         UNCHANGED assessment, metered'["generator"] = metered["generator"]
  PROVE  UNCHANGED Gate!vars
BY DEF Gate!vars

\* An exception concludes the abstract run as failed.
LEMMA FailedSteps ==
  ASSUME node \notin {"end", "failed"}, node' = "failed", UNCHANGED <<assessment, metered>>
  PROVE  Gate!Next
BY DEF Gate!Next, Gate!Conclude

LEMMA GateRefined ==
  ASSUME TypeOK, GateInv, [Next]_vars
  PROVE  [Gate!Next]_(Gate!vars)
<1> USE DEF Step, Raise
<1>1. CASE \/ InitializeRun \/ LoadSessionMemory \/ ControllerAbstains \/ AcquisitionStage
           \/ RetrievalAgent \/ TerminalReady \/ ContextBuilder \/ GenerateAnswerAbstains
           \/ ClarificationTerminal \/ AbstentionTerminal \/ ConflictingTerminal
  <2>1. node \notin {"end", "failed"} /\ UNCHANGED <<assessment, metered>>
    BY <1>1 DEF InitializeRun, LoadSessionMemory, ControllerAbstains, AcquisitionStage,
         RetrievalAgent, TerminalReady, ContextBuilder, GenerateAnswerAbstains, Terminal,
         ClarificationTerminal, AbstentionTerminal, ConflictingTerminal
  <2>2. node' \notin {"end", "failed"}
    BY <1>1, ControllerRoutes DEF InitializeRun, LoadSessionMemory, ControllerAbstains,
         AcquisitionStage, RetrievalAgent, TerminalReady, ContextBuilder, GenerateAnswerAbstains,
         Terminal, ClarificationTerminal, AbstentionTerminal, ConflictingTerminal
  <2> QED
    BY <2>1, <2>2, QuietSteps
<1>2. CASE ControllerDecide \/ ControllerRefine
  <2>1. metered'["generator"] = metered["generator"] /\ UNCHANGED assessment
    BY <1>2, PlanTypes, ProposalsAreActions DEF ControllerDecide, ControllerRefine
  <2>2. node \notin {"end", "failed"} /\ node' \notin {"end", "failed"}
    BY <1>2, ControllerRoutes DEF ControllerDecide, ControllerRefine
  <2> QED
    BY <2>1, <2>2, QuietSteps
<1>3. CASE EvidenceJudge
  <2>1. /\ assessment'.decision \in Decisions
        /\ node = "evidence_judge"
        /\ node' = RouteAfterJudge(assessment'.decision)
        /\ metered'["generator"] = metered["generator"]
    BY <1>3, JudgeTypes
  <2>2. node' \notin {"end", "failed"}
    BY <2>1, JudgeRoutes
  <2>3. metered["generator"] = 0 /\ assessment.decision \in {"none", "insufficient", "conflicting"}
    BY <2>1 DEF GateInv, GeneratorFitsNode, VerdictFitsNode
  <2> QED
    BY <2>1, <2>2, <2>3 DEF Gate!Next, Gate!Judge, Gate!Verdicts, Decisions
<1>4. CASE GenerateAnswer
  <2>1. /\ metered["generator"] = 0
        /\ assessment.decision = "sufficient"
    BY <1>4 DEF GenerateAnswer, GateInv, GeneratorFitsNode, VerdictFitsNode
  <2>2. /\ metered'["generator"] = metered["generator"] + 1
        /\ node = "generate_answer" /\ node' = "persist_turn" /\ UNCHANGED assessment
    BY <1>4 DEF GenerateAnswer, TypeOK, Roles
  <2> QED
    BY <2>1, <2>2 DEF Gate!Next, Gate!Generate
<1>5. CASE PersistTurn
  <2>1. node = "persist_turn" /\ node' = "end" /\ UNCHANGED <<assessment, metered, status>>
    BY <1>5 DEF PersistTurn, outcomeVars
  <2>2. /\ status = "answer" => metered["generator"] > 0
        /\ status = "conflicting" => assessment.decision = "conflicting"
        /\ status = "clarification" => assessment.decision \in {"none", "clarification"}
        /\ status = "abstention" => assessment.decision \notin {"clarification", "conflicting"}
        /\ status \in {"answer", "conflicting", "clarification", "abstention"}
    BY <2>1 DEF GateInv, OutcomeFitsVerdict, TypeOK, Statuses
  <2> QED
    BY <2>1, <2>2 DEF Gate!Next, Gate!Conclude
<1>6. CASE \/ RetrievalFails \/ ContextBuilderFails \/ GenerateAnswerRaises
           \/ RecursionLimitReached
  <2>1. /\ node \notin {"end", "failed"}
        /\ node' = "failed"
        /\ UNCHANGED <<assessment, metered>>
    BY <1>6 DEF RetrievalFails, ContextBuilderFails, GenerateAnswerRaises, RecursionLimitReached, Nodes
  <2> QED
    BY <2>1, FailedSteps
<1>7. CASE Finished \/ UNCHANGED vars
  BY <1>7 DEF Finished, vars, Gate!vars
<1> QED
  BY <1>1, <1>2, <1>3, <1>4, <1>5, <1>6, <1>7 DEF Next

\* T4. Every run of the graph is a run of the evidence gate.
THEOREM GraphImplementsGate == Spec => ImplementsGate
<1>1. Init => Gate!Init
  BY DEF Init, Gate!Init, NoAssessment, Roles
<1>2. TypeOK /\ GateInv /\ [Next]_vars => [Gate!Next]_(Gate!vars)
  BY GateRefined
<1> QED
  BY <1>1, <1>2, TypeCorrect, GateInductive, PTL DEF Spec, ImplementsGate, Gate!Spec

(***************************************************************************)
(* The counters and the budgets.                                           *)
(***************************************************************************)

LEMMA BudgetsAreIntegers ==
  ASSUME TypeOK
  PROVE  /\ request.budgets.iterations \in Int /\ request.budgets.toolCalls \in Int
         /\ request.budgets.tokens \in Int
         /\ iterations \in Nat /\ toolCalls \in Nat /\ steps \in 0..RecursionLimit
BY BudgetsAssumption DEF TypeOK, Requests

\* T5. No run counts past the budgets of its request.
THEOREM CountersStayWithinBudgets == Spec => []CountersWithinBudgets
<1>1. Init => CountersWithinBudgets
  BY DEF Init, CountersWithinBudgets
<1>2. TypeOK /\ CountersWithinBudgets /\ [Next]_vars => CountersWithinBudgets'
  <2> SUFFICES ASSUME TypeOK, CountersWithinBudgets, [Next]_vars PROVE CountersWithinBudgets'
    OBVIOUS
  <2>1. UNCHANGED request
    BY DEF Next, vars, Step, Raise, inputVars, InitializeRun, LoadSessionMemory, ControllerAbstains,
       ControllerDecide, AcquisitionStage, RetrievalAgent, RetrievalFails, EvidenceJudge,
       ControllerRefine, TerminalReady, ContextBuilder, ContextBuilderFails, GenerateAnswerRaises,
       GenerateAnswerAbstains, GenerateAnswer, PersistTurn, Terminal, ClarificationTerminal,
       AbstentionTerminal, ConflictingTerminal, RecursionLimitReached, Finished
  <2>2. CASE RetrievalAgent
    <3>1. CASE BudgetsExceeded
      BY <2>1, <2>2, <3>1 DEF RetrievalAgent, acquisitionVars, CountersWithinBudgets
    <3>2. CASE ~BudgetsExceeded
      <4>1. iterations < request.budgets.iterations /\ toolCalls < request.budgets.toolCalls
        BY <3>2, BudgetsAreIntegers DEF BudgetsExceeded
      <4>2. iterations' \in {iterations, iterations + 1} /\ toolCalls' \in {toolCalls, toolCalls + 1}
        BY <2>2, <3>2 DEF RetrievalAgent, CountAcquisition
      <4> QED
        BY <2>1, <4>1, <4>2, BudgetsAreIntegers DEF CountersWithinBudgets
    <3> QED
      BY <3>1, <3>2
  <2>3. CASE ~RetrievalAgent
    <3>1. UNCHANGED <<iterations, toolCalls>>
      BY <2>3, JudgeTypes
       DEF Next, vars, acquisitionVars, InitializeRun, LoadSessionMemory, ControllerAbstains,
       ControllerDecide, AcquisitionStage, RetrievalFails, EvidenceJudge,
       ControllerRefine, TerminalReady, ContextBuilder, ContextBuilderFails, GenerateAnswerRaises,
       GenerateAnswerAbstains, GenerateAnswer, PersistTurn, Terminal, ClarificationTerminal,
       AbstentionTerminal, ConflictingTerminal, RecursionLimitReached, Finished
    <3> QED
      BY <2>1, <3>1 DEF CountersWithinBudgets
  <2> QED
    BY <2>2, <2>3
<1> QED
  BY <1>1, <1>2, TypeCorrect, PTL DEF Spec

(***************************************************************************)
(* The length of a run.  Each counted plan takes the three supersteps of   *)
(* retrieval_agent, evidence_judge and controller_refine; the router lets  *)
(* no plan through once a budget is spent.                                 *)
(***************************************************************************)

CountedPlans == SearchActions \union TerminalActions \union {"tool_call"}
Acquisitions == iterations + toolCalls

AcquisitionsAllowed ==
  /\ node \in {"initialize_run", "load_session_memory", "controller_decide", "acquisition_stage"}
       => Acquisitions = 0
  /\ node \in {"acquisition_stage", "retrieval_agent", "controller_refine"}
       => ~BudgetsExceeded
  /\ node \in {"acquisition_stage", "retrieval_agent", "evidence_judge"} => plan \in CountedPlans

StepsBounded ==
  /\ node = "initialize_run" => steps = 0
  /\ node = "load_session_memory" => steps = 1
  /\ node = "controller_decide" => steps = 2
  /\ node = "acquisition_stage" => steps = 3
  /\ node = "retrieval_agent" => steps <= 3 * Acquisitions + 4
  /\ node = "evidence_judge" =>
       \/ Acquisitions < Allowance /\ steps <= 3 * Acquisitions + 2
       \/ plan \in TerminalActions /\ Acquisitions + 1 < Allowance /\ steps <= 3 * Acquisitions + 5
  /\ node = "controller_refine" => steps <= 3 * Acquisitions + 3
  /\ node \in {"clarification_terminal", "abstention_terminal", "conflicting_terminal"}
       => steps <= 3 \/ steps <= 3 * Allowance
  /\ node = "terminal_ready" => steps <= 3 * Allowance
  /\ node = "context_builder" => steps <= 3 * Allowance + 1
  /\ node = "generate_answer" => steps <= 3 * Allowance + 2
  /\ node = "persist_turn" => steps <= 4 \/ steps <= 3 * Allowance + 3

StepsInv == AcquisitionsAllowed /\ StepsBounded

\* A plan that keeps the history free of refine_query and answer is counted or
\* terminal.
LEMMA PlansCounted ==
  ASSUME TypeOK, TypeOK', NEW byRule, NEW byLLM, NEW types, Plan(byRule, byLLM, types), Counted'
  PROVE  plan' \in CountedPlans
<1>1. history' = Append(history, [action |-> plan', verdict |-> "none"])
  BY Zenon DEF Plan
<1>2. history \in Seq(HistoryEntry)
  BY DEF TypeOK, HistoryEntry
<1>3. /\ Len(history) + 1 \in DOMAIN history'
      /\ history'[Len(history) + 1].action = plan'
  BY <1>1, <1>2
<1>4. plan' \notin {"refine_query", "answer"}
  BY <1>3 DEF Counted
<1>5. plan' \in Actions
  <2>1. history' \in Seq(HistoryEntry)
    BY DEF TypeOK, HistoryEntry
  <2>2. history'[Len(history) + 1] \in HistoryEntry
    BY <1>3, <2>1
  <2> QED
    BY <1>3, <2>2 DEF HistoryEntry
<1> QED
  BY <1>4, <1>5 DEF CountedPlans, Actions, RetrievalActions

\* Plans are only added to the history, and what they asked for stays.
LEMMA CountedBefore == TypeOK /\ Counted' /\ [Next]_vars => Counted
<1> SUFFICES ASSUME TypeOK, Counted', [Next]_vars PROVE Counted
  OBVIOUS
<1>1. history \in Seq(HistoryEntry)
  BY DEF TypeOK, HistoryEntry
<1>2. \A i \in DOMAIN history : i \in DOMAIN history' /\ history'[i].action = history[i].action
  <2>1. CASE ControllerAbstains \/ ControllerDecide \/ ControllerRefine
    <3>1. PICK entry : history' = Append(history, entry)
      BY <2>1, Zenon DEF ControllerAbstains, ControllerDecide, ControllerRefine, Plan
    <3> QED
      BY <1>1, <3>1
  <2>2. CASE EvidenceJudge
    <3>1. PICK d : history' = [history EXCEPT ![Len(history)].verdict = d]
      BY <2>2, Zenon DEF EvidenceJudge
    <3> QED
      BY <1>1, <3>1 DEF HistoryEntry
  <2>3. CASE ~(ControllerAbstains \/ ControllerDecide \/ ControllerRefine \/ EvidenceJudge)
    <3>1. UNCHANGED history
      BY <2>3
       DEF Next, vars, planVars, InitializeRun, LoadSessionMemory, AcquisitionStage,
       RetrievalAgent, RetrievalFails, TerminalReady, ContextBuilder, ContextBuilderFails,
       GenerateAnswerRaises, GenerateAnswerAbstains, GenerateAnswer, PersistTurn, Terminal,
       ClarificationTerminal, AbstentionTerminal, ConflictingTerminal, RecursionLimitReached,
       Finished
    <3> QED
      BY <3>1
  <2> QED
    BY <2>1, <2>2, <2>3
<1> QED
  BY <1>2 DEF Counted

\* A terminal plan is judged without asking for more evidence.
LEMMA TerminalPlansEnd ==
  ASSUME TypeOK, EvidenceJudge, plan \in TerminalActions
  PROVE  assessment'.decision \in {"sufficient", "clarification", "abstain"}
<1>1. \E d \in {"sufficient", "clarification", "abstain"} : FastVerdicts = {Judged(d)}
  <2>1. CASE plan = "no_acquisition_required"
    BY <2>1, Zenon DEF FastVerdicts, TerminalActions
  <2>2. CASE plan = "clarify"
    BY <2>2, Zenon DEF FastVerdicts, TerminalActions
  <2>3. CASE plan = "abstain"
    BY <2>3, Zenon DEF FastVerdicts, TerminalActions
  <2> QED
    BY <2>1, <2>2, <2>3 DEF TerminalActions
<1>2. assessment' \in FastVerdicts
  BY <1>1, Zenon DEF EvidenceJudge
<1> QED
  BY <1>1, <1>2 DEF Judged

LEMMA StepsInit == Init => StepsInv
BY DEF Init, StepsInv, AcquisitionsAllowed, StepsBounded, Acquisitions

LEMMA StepsNext == TypeOK /\ TypeOK' /\ StepsInv /\ Counted' /\ [Next]_vars => StepsInv'
<1> SUFFICES ASSUME TypeOK, TypeOK', StepsInv, Counted', [Next]_vars PROVE StepsInv'
  OBVIOUS
<1> USE BudgetsAreIntegers DEF StepsInv, AcquisitionsAllowed, StepsBounded, Acquisitions, Allowance, Step, Raise
<1>1. CASE InitializeRun \/ LoadSessionMemory
  BY <1>1 DEF InitializeRun, LoadSessionMemory, acquisitionVars, inputVars
<1>2. CASE ControllerAbstains
  <2>1. node' = "abstention_terminal"
    BY <1>2, Zenon DEF ControllerAbstains, RouteAfterController
  <2> QED
    BY <1>2, <2>1 DEF ControllerAbstains, acquisitionVars, inputVars
<1>3. CASE ControllerDecide
  <2>1. plan' \in CountedPlans
    BY <1>3, PlansCounted DEF ControllerDecide
  <2>2. ~BudgetsExceeded
    BY <1>3 DEF ControllerDecide
  <2>3. node' \in {"acquisition_stage", "clarification_terminal", "abstention_terminal"}
    BY <1>3, ControllerRoutes DEF ControllerDecide
  <2> QED
    BY <1>3, <2>1, <2>2, <2>3 DEF ControllerDecide, acquisitionVars, inputVars, BudgetsExceeded
<1>4. CASE AcquisitionStage
  <2>1. /\ node = "acquisition_stage" /\ steps' = steps + 1
        /\ UNCHANGED <<iterations, toolCalls, request, usage, plan>>
        /\ ~BudgetsExceeded' /\ plan' \in CountedPlans
    BY <1>4 DEF AcquisitionStage, acquisitionVars, inputVars, planVars, BudgetsExceeded
  <2>2. iterations < request.budgets.iterations /\ toolCalls < request.budgets.toolCalls
    BY <2>1 DEF BudgetsExceeded
  <2>3. \/ node' = "retrieval_agent"
        \/ node' = "evidence_judge" /\ plan \in TerminalActions
    BY <1>4 DEF AcquisitionStage, TerminalActions
  <2> QED
    BY <2>1, <2>2, <2>3
<1>5. CASE RetrievalAgent
  <2>1. /\ ~BudgetsExceeded
        /\ iterations < request.budgets.iterations /\ toolCalls < request.budgets.toolCalls
    BY <1>5 DEF RetrievalAgent, BudgetsExceeded
  <2> QED
    BY <1>5, <2>1 DEF RetrievalAgent, CountAcquisition, inputVars, planVars, CountedPlans,
                      BudgetsExceeded, SearchActions, TerminalActions
<1>6. CASE EvidenceJudge
  <2>1. /\ assessment'.decision \in Decisions
        /\ node = "evidence_judge"
        /\ node' = RouteAfterJudge(assessment'.decision)
        /\ steps' = steps + 1
        /\ UNCHANGED <<iterations, toolCalls, request, usage, plan>>
    BY <1>6, JudgeTypes DEF acquisitionVars, inputVars
  <2>2. plan \in TerminalActions => node' # "controller_refine"
    BY <1>6, <2>1, TerminalPlansEnd, JudgeRoutes
  <2>3. node' = "controller_refine" => ~BudgetsExceeded
    BY <2>1, Zenon DEF RouteAfterJudge, Decisions
  <2>4. node' \in {"terminal_ready", "clarification_terminal", "controller_refine",
                   "conflicting_terminal", "abstention_terminal"}
    BY <2>1, JudgeRoutes
  <2>5. steps + 1 <= 3 * Allowance
    BY <2>1
  <2>6. CASE node' = "controller_refine"
    <3>1. ~BudgetsExceeded'
      BY <2>1, <2>3, <2>6 DEF BudgetsExceeded
    <3>2. steps <= 3 * Acquisitions + 2
      BY <2>1, <2>2, <2>6
    <3> QED
      BY <2>1, <2>6, <3>1, <3>2
  <2>7. CASE node' # "controller_refine"
    BY <2>1, <2>4, <2>5, <2>7
  <2> QED
    BY <2>6, <2>7
<1>7. CASE ControllerRefine
  <2>1. plan' \in CountedPlans
    BY <1>7, PlansCounted DEF ControllerRefine
  <2>2. /\ node = "controller_refine" /\ node' = "retrieval_agent" /\ steps' = steps + 1
        /\ UNCHANGED <<iterations, toolCalls, request, usage>>
    BY <1>7 DEF ControllerRefine, acquisitionVars, inputVars
  <2>3. ~BudgetsExceeded'
    BY <2>2 DEF BudgetsExceeded
  <2> QED
    BY <2>1, <2>2, <2>3
<1>8. CASE \/ TerminalReady \/ ContextBuilder \/ GenerateAnswerAbstains \/ GenerateAnswer
           \/ PersistTurn \/ ClarificationTerminal \/ AbstentionTerminal \/ ConflictingTerminal
  <2>1. /\ UNCHANGED request
        /\ steps' = steps + 1
        /\ \/ node = "terminal_ready" /\ node' = "context_builder"
           \/ node = "context_builder" /\ node' = "generate_answer"
           \/ node = "generate_answer" /\ node' = "persist_turn"
           \/ node = "persist_turn" /\ node' = "end"
           \/ /\ node \in {"clarification_terminal", "abstention_terminal", "conflicting_terminal"}
              /\ node' = "persist_turn"
    BY <1>8 DEF TerminalReady, ContextBuilder, GenerateAnswerAbstains, GenerateAnswer, PersistTurn,
         Terminal, ClarificationTerminal, AbstentionTerminal, ConflictingTerminal, inputVars
  <2> QED
    BY <2>1
<1>9. CASE \/ RetrievalFails \/ ContextBuilderFails \/ GenerateAnswerRaises
           \/ RecursionLimitReached
  BY <1>9 DEF RetrievalFails, ContextBuilderFails, GenerateAnswerRaises, RecursionLimitReached
<1>10. CASE Finished \/ UNCHANGED vars
  BY <1>10 DEF Finished, vars, BudgetsExceeded
<1> QED
  BY <1>1, <1>2, <1>3, <1>4, <1>5, <1>6, <1>7, <1>8, <1>9, <1>10 DEF Next

\* What each node adds to the metered calls.
LEMMA PlannerCalls ==
  ASSUME TypeOK, NEW byRule, NEW byLLM, NEW types, Plan(byRule, byLLM, types)
  PROVE  /\ metered'["planner"] \in {metered["planner"], metered["planner"] + 1}
         /\ metered'["judge"] = metered["judge"]
         /\ metered'["generator"] = metered["generator"]
<1>1. PICK n \in {0, 1} : metered' = [metered EXCEPT !["planner"] = @ + n]
  BY Zenon DEF Plan
<1> QED
  BY <1>1 DEF TypeOK, Roles

LEMMA JudgeCalls ==
  ASSUME TypeOK, EvidenceJudge
  PROVE  /\ metered'["judge"] \in {metered["judge"], metered["judge"] + 1}
         /\ plan \in TerminalActions => metered'["judge"] = metered["judge"]
         /\ metered'["planner"] = metered["planner"]
         /\ metered'["generator"] = metered["generator"]
<1>1. PICK byLLM \in {FALSE, request.llm /\ FastVerdicts = {}} :
        metered' = [metered EXCEPT !["judge"] = @ + (IF byLLM THEN 1 ELSE 0)]
  BY Zenon DEF EvidenceJudge
<1>2. plan \in TerminalActions => FastVerdicts # {}
  BY Zenon DEF FastVerdicts, TerminalActions
<1>3. plan \in TerminalActions => ~byLLM
  BY <1>1, <1>2, Zenon
<1>4. /\ metered'["judge"] = metered["judge"] + (IF byLLM THEN 1 ELSE 0)
      /\ metered'["planner"] = metered["planner"]
      /\ metered'["generator"] = metered["generator"]
  BY <1>1 DEF TypeOK, Roles
<1>5. metered["judge"] \in Nat
  BY DEF TypeOK, Roles
<1>6. CASE byLLM
  <2>1. metered'["judge"] = metered["judge"] + 1
    BY <1>4, <1>6
  <2> QED
    BY <1>3, <1>4, <1>6, <2>1, Zenon
<1>7. CASE ~byLLM
  <2>1. metered'["judge"] = metered["judge"]
    BY <1>4, <1>5, <1>7
  <2> QED
    BY <1>4, <2>1, Zenon
<1> QED
  BY <1>6, <1>7, Zenon

LEMMA CallsAreNatural ==
  ASSUME TypeOK
  PROVE  /\ metered["planner"] \in Nat /\ metered["judge"] \in Nat
         /\ metered["generator"] \in Nat /\ LLMCalls \in Nat
BY DEF TypeOK, Roles, LLMCalls

\* One planner call opens a run and one more follows each acquisition that is not
\* enough; the judge is asked after an acquisition only; and the generator is only
\* asked while another acquisition of either kind would be allowed.
CallsFit ==
  /\ node \in {"initialize_run", "load_session_memory", "controller_decide"}
       => metered["planner"] = 0 /\ metered["judge"] = 0
  /\ node \in {"acquisition_stage", "retrieval_agent"}
       => metered["planner"] <= Acquisitions + 1 /\ metered["judge"] <= Acquisitions
  /\ node = "evidence_judge" =>
       \/ metered["planner"] <= Acquisitions /\ metered["judge"] < Acquisitions
       \/ /\ plan \in TerminalActions /\ Acquisitions + 1 < Allowance
          /\ metered["planner"] <= Acquisitions + 1 /\ metered["judge"] <= Acquisitions
  /\ node = "controller_refine"
       => metered["planner"] <= Acquisitions /\ metered["judge"] <= Acquisitions
  /\ node \in {"terminal_ready", "context_builder", "generate_answer"} =>
       /\ metered["judge"] <= Acquisitions
       /\ metered["planner"] <= Acquisitions + 1

CallsInv == CallsFit /\ (LLMCalls = 0 \/ LLMCalls <= 2 * (Allowance - 1))

LEMMA CallsInit == Init => CallsInv
BY DEF Init, CallsInv, CallsFit, LLMCalls, Roles

LEMMA CallsNext ==
  TypeOK /\ TypeOK' /\ GateInv /\ StepsInv /\ CallsInv /\ Counted' /\ [Next]_vars => CallsInv'
<1> SUFFICES ASSUME TypeOK, TypeOK', GateInv, StepsInv, CallsInv, Counted', [Next]_vars
             PROVE  CallsInv'
  OBVIOUS
<1> USE BudgetsAreIntegers, CallsAreNatural
    DEF CallsInv, CallsFit, LLMCalls, AcquisitionsAllowed, Acquisitions, Allowance
<1>0. /\ AcquisitionsAllowed /\ StepsBounded
      /\ node \notin {"persist_turn", "end", "failed"} => metered["generator"] = 0
  BY DEF StepsInv, GateInv, GeneratorFitsNode
<1>1. CASE \/ InitializeRun \/ LoadSessionMemory \/ ControllerAbstains
  <2>1. /\ UNCHANGED <<metered, iterations, toolCalls, request>>
        /\ node \in {"initialize_run", "load_session_memory", "controller_decide"}
        /\ node' \in {"load_session_memory", "controller_decide", "acquisition_stage",
                      "clarification_terminal", "abstention_terminal"}
    BY <1>1, ControllerRoutes DEF InitializeRun, LoadSessionMemory, ControllerAbstains, Step,
                                  inputVars, acquisitionVars
  <2> QED
    BY <2>1, <1>0
<1>2. CASE ControllerDecide
  <2>1. /\ metered'["planner"] \in {metered["planner"], metered["planner"] + 1}
        /\ metered'["judge"] = metered["judge"] /\ metered'["generator"] = metered["generator"]
    BY <1>2, PlannerCalls DEF ControllerDecide
  <2>2. /\ UNCHANGED <<iterations, toolCalls, request>> /\ node = "controller_decide"
        /\ node' \in {"acquisition_stage", "clarification_terminal", "abstention_terminal"}
        /\ ~BudgetsExceeded
    BY <1>2, ControllerRoutes DEF ControllerDecide, Step, inputVars, acquisitionVars
  <2>3. iterations < request.budgets.iterations /\ toolCalls < request.budgets.toolCalls
    BY <2>2 DEF BudgetsExceeded
  <2> QED
    BY <2>1, <2>2, <2>3, <1>0
<1>3. CASE AcquisitionStage
  <2>1. /\ UNCHANGED <<metered, iterations, toolCalls, request, plan>>
        /\ node = "acquisition_stage" /\ ~BudgetsExceeded
        /\ \/ node' = "retrieval_agent"
           \/ node' = "evidence_judge" /\ plan \in TerminalActions
    BY <1>3, <1>0 DEF AcquisitionStage, Step, inputVars, planVars, acquisitionVars, TerminalActions
  <2>2. iterations < request.budgets.iterations /\ toolCalls < request.budgets.toolCalls
    BY <2>1 DEF BudgetsExceeded
  <2> QED
    BY <2>1, <2>2, <1>0
<1>4. CASE RetrievalAgent
  <2>1. /\ UNCHANGED <<metered, request, plan>> /\ node = "retrieval_agent"
        /\ node' = "evidence_judge" /\ ~BudgetsExceeded /\ plan \in CountedPlans
    BY <1>4, <1>0 DEF RetrievalAgent, Step, inputVars, planVars
  <2>2. iterations < request.budgets.iterations /\ toolCalls < request.budgets.toolCalls
    BY <2>1 DEF BudgetsExceeded
  <2>3. \/ plan \in TerminalActions /\ UNCHANGED <<iterations, toolCalls>>
        \/ Acquisitions' = Acquisitions + 1
    BY <1>4, <2>1 DEF RetrievalAgent, CountAcquisition, CountedPlans, SearchActions, TerminalActions
  <2> QED
    BY <2>1, <2>2, <2>3
<1>5. CASE EvidenceJudge
  <2>1. /\ assessment'.decision \in Decisions
        /\ node = "evidence_judge"
        /\ node' = RouteAfterJudge(assessment'.decision)
        /\ UNCHANGED <<iterations, toolCalls, request, plan>>
    BY <1>5, JudgeTypes DEF acquisitionVars, inputVars, Step
  <2>2. /\ metered'["judge"] \in {metered["judge"], metered["judge"] + 1}
        /\ plan \in TerminalActions => metered'["judge"] = metered["judge"]
        /\ metered'["planner"] = metered["planner"]
        /\ metered'["generator"] = metered["generator"]
    BY <1>5, JudgeCalls
  <2>3. /\ node' \in {"terminal_ready", "clarification_terminal", "controller_refine",
                      "conflicting_terminal", "abstention_terminal"}
        /\ plan \in TerminalActions => node' # "controller_refine"
    BY <1>5, <2>1, JudgeRoutes, TerminalPlansEnd
  <2>4. Acquisitions < Allowance
    BY <1>0, <2>1 DEF StepsBounded
  <2>5. CASE metered["planner"] <= Acquisitions /\ metered["judge"] < Acquisitions
    BY <1>0, <2>1, <2>2, <2>3, <2>4, <2>5
  <2>6. CASE /\ plan \in TerminalActions /\ Acquisitions + 1 < Allowance
             /\ metered["planner"] <= Acquisitions + 1 /\ metered["judge"] <= Acquisitions
    BY <1>0, <2>1, <2>2, <2>3, <2>6
  <2> QED
    BY <2>1, <2>5, <2>6
<1>6. CASE ControllerRefine
  <2>1. /\ metered'["planner"] \in {metered["planner"], metered["planner"] + 1}
        /\ metered'["judge"] = metered["judge"] /\ metered'["generator"] = metered["generator"]
    BY <1>6, PlannerCalls DEF ControllerRefine
  <2>2. /\ UNCHANGED <<iterations, toolCalls, request>> /\ node = "controller_refine"
        /\ node' = "retrieval_agent" /\ ~BudgetsExceeded
    BY <1>6, <1>0 DEF ControllerRefine, Step, inputVars, acquisitionVars
  <2>3. iterations < request.budgets.iterations /\ toolCalls < request.budgets.toolCalls
    BY <2>2 DEF BudgetsExceeded
  <2> QED
    BY <2>1, <2>2, <2>3, <1>0
<1>7. CASE GenerateAnswer
  <2>1. /\ metered'["planner"] = metered["planner"] /\ metered'["judge"] = metered["judge"]
        /\ metered'["generator"] = metered["generator"] + 1
    BY <1>7 DEF GenerateAnswer, TypeOK, Roles
  <2>2. /\ UNCHANGED <<iterations, toolCalls, request>> /\ node = "generate_answer"
        /\ node' = "persist_turn" /\ ~BudgetsExceeded
    BY <1>7 DEF GenerateAnswer, Step, inputVars, acquisitionVars
  <2>3. iterations < request.budgets.iterations /\ toolCalls < request.budgets.toolCalls
    BY <2>2 DEF BudgetsExceeded
  <2> QED
    BY <2>1, <2>2, <2>3, <1>0
<1>8. CASE \/ TerminalReady \/ ContextBuilder \/ GenerateAnswerAbstains \/ PersistTurn
           \/ ClarificationTerminal \/ AbstentionTerminal \/ ConflictingTerminal
  <2>1. /\ UNCHANGED <<metered, iterations, toolCalls, request>>
        /\ \/ node = "terminal_ready" /\ node' = "context_builder"
           \/ node = "context_builder" /\ node' = "generate_answer"
           \/ node' \in {"persist_turn", "end"}
    BY <1>8 DEF TerminalReady, ContextBuilder, GenerateAnswerAbstains, PersistTurn, Terminal,
         ClarificationTerminal, AbstentionTerminal, ConflictingTerminal, Step, inputVars,
         acquisitionVars
  <2> QED
    BY <2>1
<1>9. CASE \/ RetrievalFails \/ ContextBuilderFails \/ GenerateAnswerRaises
           \/ RecursionLimitReached
  BY <1>9 DEF RetrievalFails, ContextBuilderFails, GenerateAnswerRaises, RecursionLimitReached,
              Raise, inputVars, acquisitionVars
<1>10. CASE Finished \/ UNCHANGED vars
  BY <1>10 DEF Finished, vars
<1> QED
  BY <1>1, <1>2, <1>3, <1>4, <1>5, <1>6, <1>7, <1>8, <1>9, <1>10 DEF Next

BoundedInv == StepsInv /\ CallsInv

LEMMA BoundedAlways == Spec => [](Counted => BoundedInv)
<1>1. Init => BoundedInv
  BY StepsInit, CallsInit DEF BoundedInv
<1>2. TypeOK /\ TypeOK' /\ GateInv /\ (Counted => BoundedInv) /\ [Next]_vars
        => (Counted => BoundedInv)'
  BY StepsNext, CallsNext, CountedBefore DEF BoundedInv
<1> QED
  BY <1>1, <1>2, TypeCorrect, GateInductive, PTL DEF Spec

\* T6. If every planned acquisition is counted, the budgets bound a run: it makes at
\* most two metered LLM calls for all but one of the acquisitions they allow, and no
\* recursion limit of three supersteps for each and four more cuts it off.
THEOREM BudgetsBoundRuns == Spec => []BudgetsBoundTheRun
<1>1. Init => BudgetsBoundTheRun
  BY CallsInit DEF Init, BudgetsBoundTheRun, CallsInv
<1>2. TypeOK /\ TypeOK' /\ (Counted => BoundedInv) /\ (Counted => BoundedInv)'
        /\ BudgetsBoundTheRun /\ [Next]_vars => BudgetsBoundTheRun'
  <2> SUFFICES ASSUME TypeOK, TypeOK', Counted, Counted', BoundedInv, BoundedInv',
                      BudgetsBoundTheRun, [Next]_vars
               PROVE  EnoughSteps' => failure' # "recursion"
    BY CountedBefore DEF BudgetsBoundTheRun, BoundedInv, CallsInv
  <2> SUFFICES ASSUME EnoughSteps' PROVE failure' # "recursion"
    OBVIOUS
  <2>0. StepsInv
    BY DEF BoundedInv
  <2>1. UNCHANGED request
    BY DEF Next, vars, Step, Raise, inputVars, InitializeRun, LoadSessionMemory, ControllerAbstains,
       ControllerDecide, AcquisitionStage, RetrievalAgent, RetrievalFails, EvidenceJudge,
       ControllerRefine, TerminalReady, ContextBuilder, ContextBuilderFails, GenerateAnswerRaises,
       GenerateAnswerAbstains, GenerateAnswer, PersistTurn, Terminal, ClarificationTerminal,
       AbstentionTerminal, ConflictingTerminal, RecursionLimitReached, Finished
  <2>2. EnoughSteps /\ failure # "recursion"
    BY <2>1 DEF EnoughSteps, Allowance, BudgetsBoundTheRun
  <2>3. CASE RecursionLimitReached
    <3>1. node \in Nodes /\ steps = RecursionLimit
      BY <2>3 DEF RecursionLimitReached
    <3>2. steps <= 4 \/ steps <= 3 * Allowance + 3
      BY <2>0, <3>1, BudgetsAreIntegers DEF Nodes, StepsInv, AcquisitionsAllowed, StepsBounded,
         Acquisitions, Allowance, BudgetsExceeded
    <3> QED
      BY <2>2, <3>1, <3>2, BudgetsAreIntegers, RecursionAssumption DEF Allowance, EnoughSteps
  <2>4. CASE ~RecursionLimitReached
    BY <2>2, <2>4, JudgeTypes
       DEF Next, vars, Step, Raise, inputVars, InitializeRun, LoadSessionMemory, ControllerAbstains,
       ControllerDecide, AcquisitionStage, RetrievalAgent, RetrievalFails, EvidenceJudge,
       ControllerRefine, TerminalReady, ContextBuilder, ContextBuilderFails, GenerateAnswerRaises,
       GenerateAnswerAbstains, GenerateAnswer, PersistTurn, Terminal, ClarificationTerminal,
       AbstentionTerminal, ConflictingTerminal, Finished
  <2> QED
    BY <2>3, <2>4
<1> QED
  BY <1>1, <1>2, BoundedAlways, TypeCorrect, PTL DEF Spec

(***************************************************************************)
(* The calls of a run whose plans are not all counted.                     *)
(***************************************************************************)

\* how far the calls are behind the supersteps at each node
RateInv ==
  /\ node \in {"initialize_run", "load_session_memory", "controller_decide"}
       => metered["planner"] = 0 /\ metered["judge"] = 0 /\ metered["generator"] = 0
  /\ node = "load_session_memory" => steps >= 1
  /\ node = "controller_decide" => steps >= 2
  /\ node \in {"acquisition_stage", "clarification_terminal", "abstention_terminal",
               "conflicting_terminal"} => 3 * LLMCalls + 3 <= 2 * steps
  /\ node = "retrieval_agent" => 3 * LLMCalls + 5 <= 2 * steps
  /\ node = "evidence_judge" =>
       \/ 3 * LLMCalls + 7 <= 2 * steps
       \/ plan \in TerminalActions /\ 3 * LLMCalls + 5 <= 2 * steps
  /\ node \in {"controller_refine", "terminal_ready"} => 3 * LLMCalls + 6 <= 2 * steps
  /\ node = "context_builder" => 3 * LLMCalls + 8 <= 2 * steps
  /\ node = "generate_answer" => 3 * LLMCalls + 10 <= 2 * steps
  /\ 3 * LLMCalls <= 2 * steps

LEMMA RateInit == Init => RateInv
BY DEF Init, RateInv, LLMCalls, Roles

LEMMA RateNext == TypeOK /\ TypeOK' /\ RateInv /\ [Next]_vars => RateInv'
<1> SUFFICES ASSUME TypeOK, TypeOK', RateInv, [Next]_vars PROVE RateInv'
  OBVIOUS
<1>0. /\ steps \in Nat /\ steps' \in Nat /\ LLMCalls \in Nat
      /\ metered["planner"] \in Nat /\ metered["judge"] \in Nat /\ metered["generator"] \in Nat
      /\ UNCHANGED metered => LLMCalls' = LLMCalls
  BY CallsAreNatural, RecursionAssumption DEF TypeOK, LLMCalls, Roles
<1>1. CASE \/ InitializeRun \/ LoadSessionMemory \/ ControllerAbstains
  <2>1. /\ UNCHANGED metered /\ steps' = steps + 1
        /\ \/ node = "initialize_run" /\ node' = "load_session_memory"
           \/ node = "load_session_memory" /\ node' = "controller_decide"
           \/ /\ node = "controller_decide"
              /\ node' \in {"acquisition_stage", "clarification_terminal", "abstention_terminal"}
    BY <1>1, ControllerRoutes DEF InitializeRun, LoadSessionMemory, ControllerAbstains, Step
  <2>2. metered["planner"] = 0 /\ metered["judge"] = 0 /\ metered["generator"] = 0
    BY <2>1 DEF RateInv
  <2>3. LLMCalls' = 0
    BY <2>1, <2>2 DEF LLMCalls
  <2> QED
    BY <2>1, <2>2, <2>3, <1>0 DEF RateInv
<1>2. CASE ControllerDecide
  <2>1. /\ metered'["planner"] \in {metered["planner"], metered["planner"] + 1}
        /\ metered'["judge"] = metered["judge"] /\ metered'["generator"] = metered["generator"]
    BY <1>2, PlannerCalls DEF ControllerDecide
  <2>2. /\ steps' = steps + 1 /\ node = "controller_decide"
        /\ node' \in {"acquisition_stage", "clarification_terminal", "abstention_terminal"}
    BY <1>2, ControllerRoutes DEF ControllerDecide, Step
  <2>3. steps >= 2
    BY <2>2 DEF RateInv
  <2>4. metered["planner"] = 0 /\ metered["judge"] = 0 /\ metered["generator"] = 0
    BY <2>2 DEF RateInv
  <2>5. LLMCalls' = 0 \/ LLMCalls' = 1
    BY <2>1, <2>4 DEF LLMCalls
  <2>6. CASE LLMCalls' = 0
    BY <2>2, <2>3, <2>6, <1>0 DEF RateInv
  <2>7. CASE LLMCalls' = 1
    BY <2>2, <2>3, <2>7, <1>0 DEF RateInv
  <2> QED
    BY <2>5, <2>6, <2>7
<1>3. CASE AcquisitionStage \/ RetrievalAgent
  <2>1. /\ UNCHANGED <<metered, plan>> /\ steps' = steps + 1
        /\ \/ node = "acquisition_stage" /\ node' = "retrieval_agent"
           \/ node = "acquisition_stage" /\ node' = "evidence_judge" /\ plan \in TerminalActions
           \/ node = "retrieval_agent" /\ node' = "evidence_judge"
    BY <1>3 DEF AcquisitionStage, RetrievalAgent, Step, planVars, TerminalActions
  <2> QED
    BY <2>1, <1>0 DEF RateInv
<1>4. CASE EvidenceJudge
  <2>1. /\ node = "evidence_judge" /\ steps' = steps + 1
        /\ assessment'.decision \in Decisions
        /\ node' = RouteAfterJudge(assessment'.decision)
    BY <1>4, JudgeTypes DEF Step
  <2>2. /\ node' \in {"terminal_ready", "clarification_terminal", "controller_refine",
                      "conflicting_terminal", "abstention_terminal"}
        /\ plan \in TerminalActions => node' # "controller_refine"
    BY <1>4, <2>1, JudgeRoutes, TerminalPlansEnd
  <2>3. /\ metered'["judge"] \in {metered["judge"], metered["judge"] + 1}
        /\ plan \in TerminalActions => metered'["judge"] = metered["judge"]
        /\ metered'["planner"] = metered["planner"]
        /\ metered'["generator"] = metered["generator"]
    BY <1>4, JudgeCalls
  <2> QED
    BY <2>1, <2>2, <2>3, <1>0 DEF RateInv, LLMCalls
<1>5. CASE ControllerRefine
  <2>1. /\ metered'["planner"] \in {metered["planner"], metered["planner"] + 1}
        /\ metered'["judge"] = metered["judge"] /\ metered'["generator"] = metered["generator"]
    BY <1>5, PlannerCalls DEF ControllerRefine
  <2>2. steps' = steps + 1 /\ node = "controller_refine" /\ node' = "retrieval_agent"
    BY <1>5 DEF ControllerRefine, Step
  <2> QED
    BY <2>1, <2>2, <1>0 DEF RateInv, LLMCalls
<1>6. CASE GenerateAnswer
  <2>1. /\ metered'["planner"] = metered["planner"] /\ metered'["judge"] = metered["judge"]
        /\ metered'["generator"] = metered["generator"] + 1
    BY <1>6 DEF GenerateAnswer, TypeOK, Roles
  <2>2. LLMCalls' = LLMCalls + 1
    BY <2>1, CallsAreNatural DEF LLMCalls
  <2>3. steps' = steps + 1 /\ node = "generate_answer" /\ node' = "persist_turn"
    BY <1>6 DEF GenerateAnswer, Step
  <2> QED
    BY <2>2, <2>3, <1>0 DEF RateInv
<1>7. CASE \/ TerminalReady \/ ContextBuilder \/ GenerateAnswerAbstains \/ PersistTurn
           \/ ClarificationTerminal \/ AbstentionTerminal \/ ConflictingTerminal
  <2>1. /\ UNCHANGED metered /\ steps' = steps + 1
        /\ \/ node = "terminal_ready" /\ node' = "context_builder"
           \/ node = "context_builder" /\ node' = "generate_answer"
           \/ node' \in {"persist_turn", "end"}
    BY <1>7 DEF TerminalReady, ContextBuilder, GenerateAnswerAbstains, PersistTurn, Terminal,
         ClarificationTerminal, AbstentionTerminal, ConflictingTerminal, Step
  <2> QED
    BY <2>1, <1>0 DEF RateInv
<1>8. CASE \/ RetrievalFails \/ ContextBuilderFails \/ GenerateAnswerRaises
           \/ RecursionLimitReached
  <2>1. UNCHANGED metered /\ steps' \in {steps, steps + 1} /\ node' = "failed"
    BY <1>8 DEF RetrievalFails, ContextBuilderFails, GenerateAnswerRaises, RecursionLimitReached, Raise
  <2> QED
    BY <2>1, <1>0 DEF RateInv, LLMCalls
<1>9. CASE Finished \/ UNCHANGED vars
  BY <1>9 DEF Finished, vars, RateInv, LLMCalls
<1> QED
  BY <1>1, <1>2, <1>3, <1>4, <1>5, <1>6, <1>7, <1>8, <1>9 DEF Next

\* T7. Whatever is planned, refine_query and answer included, a run makes at most two
\* metered calls in three supersteps: the recursion limit of LangGraph bounds what a
\* run can spend (16 calls for its 25 supersteps), and nothing tighter does.
THEOREM CallsKeepPace == Spec => [](3 * LLMCalls <= 2 * steps /\ steps <= RecursionLimit)
<1>1. TypeOK /\ RateInv => 3 * LLMCalls <= 2 * steps /\ steps <= RecursionLimit
  BY RecursionAssumption DEF TypeOK, RateInv
<1> QED
  BY <1>1, RateInit, RateNext, TypeCorrect, PTL DEF Spec


(***************************************************************************)
(* A rejected query.  Its run is on the way that leads past every node     *)
(* that costs anything, because nothing had been spent when it was         *)
(* rejected.                                                               *)
(***************************************************************************)

NothingSpent ==
  /\ \A r \in Roles : metered[r] = 0
  /\ evidence = {} /\ iterations = 0 /\ toolCalls = 0

RejectedInv ==
  /\ node = "initialize_run" => NothingSpent
  /\ rejected =>
       /\ NothingSpent
       /\ node \in {"load_session_memory", "controller_decide", "abstention_terminal",
                    "persist_turn", "end", "failed"}
       /\ node \in {"persist_turn", "end"} => status = "abstention"

LEMMA RejectedInit == Init => RejectedInv
BY DEF Init, RejectedInv, NothingSpent

LEMMA RejectedNext == TypeOK /\ RejectedInv /\ [Next]_vars => RejectedInv'
<1> SUFFICES ASSUME TypeOK, RejectedInv, [Next]_vars PROVE RejectedInv'
  OBVIOUS
<1> USE DEF RejectedInv, NothingSpent, Step, Raise
<1>1. CASE InitializeRun
  BY <1>1 DEF InitializeRun, acquisitionVars
<1>2. CASE LoadSessionMemory
  BY <1>2 DEF LoadSessionMemory, acquisitionVars
<1>3. CASE ControllerAbstains
  <2>1. RouteAfterController("abstain") = "abstention_terminal"
    BY Zenon DEF RouteAfterController
  <2> QED
    BY <1>3, <2>1 DEF ControllerAbstains, acquisitionVars
<1>4. CASE ControllerDecide
  <2>1. node' \in {"acquisition_stage", "clarification_terminal", "abstention_terminal"}
    BY <1>4, ControllerRoutes DEF ControllerDecide
  <2> QED
    BY <1>4, <2>1 DEF ControllerDecide
<1>5. CASE EvidenceJudge
  <2>1. ~rejected
    BY <1>5 DEF EvidenceJudge
  <2>2. node' \in Nodes \ {"initialize_run"} /\ rejected' = rejected
    BY <1>5, JudgeTypes, JudgeRoutes DEF Nodes
  <2> QED
    BY <2>1, <2>2
<1>6. CASE \/ AcquisitionStage \/ RetrievalAgent \/ RetrievalFails \/ ControllerRefine
           \/ TerminalReady \/ ContextBuilder \/ ContextBuilderFails
           \/ GenerateAnswerAbstains \/ GenerateAnswerRaises \/ GenerateAnswer
           \/ ClarificationTerminal \/ ConflictingTerminal
  <2>1. /\ node \notin {"initialize_run", "load_session_memory", "controller_decide",
                        "abstention_terminal", "persist_turn", "end", "failed"}
        /\ node' # "initialize_run" /\ rejected' = rejected
    BY <1>6 DEF AcquisitionStage, RetrievalAgent, RetrievalFails, ControllerRefine,
                TerminalReady, ContextBuilder, ContextBuilderFails, GenerateAnswerAbstains,
                GenerateAnswerRaises, GenerateAnswer, ClarificationTerminal,
                ConflictingTerminal, Terminal
  <2> QED
    BY <2>1
<1>7. CASE AbstentionTerminal
  BY <1>7 DEF AbstentionTerminal, Terminal, acquisitionVars
<1>8. CASE PersistTurn
  BY <1>8 DEF PersistTurn, acquisitionVars, outcomeVars
<1>9. CASE RecursionLimitReached
  BY <1>9 DEF RecursionLimitReached, acquisitionVars
<1>10. CASE Finished \/ UNCHANGED vars
  BY <1>10 DEF Finished, vars, acquisitionVars, outcomeVars
<1> QED
  BY <1>1, <1>2, <1>3, <1>4, <1>5, <1>6, <1>7, <1>8, <1>9, <1>10 DEF Next

\* T8. A query the guardrail rejected reaches no LLM, no search and no tool, for
\* every budget, planner and judge (nodes.py:123).
THEOREM RejectionIsHonoured == Spec => []RejectedRunsSpendNothing
<1>1. RejectedInv => RejectedRunsSpendNothing
  BY DEF RejectedInv, NothingSpent, RejectedRunsSpendNothing
<1> QED
  BY <1>1, RejectedInit, RejectedNext, TypeCorrect, PTL DEF Spec

(***************************************************************************)
(* The plan history.  Each plan but the last has been judged and found     *)
(* wanting; the last one has the verdict that stands, once there is one.   *)
(***************************************************************************)

EarlierPlansFailed ==
  \A i \in 1 .. Len(history) :
    i < Len(history) => history[i].verdict \in {"insufficient", "conflicting"}

LastVerdictStands ==
  Len(history) > 0 /\ history[Len(history)].verdict = assessment.decision

HistoryInv ==
  /\ EarlierPlansFailed
  /\ node \in {"initialize_run", "load_session_memory", "controller_decide"} =>
       history = <<>> /\ assessment = NoAssessment
  /\ node \in {"acquisition_stage", "retrieval_agent", "evidence_judge"} => Len(history) > 0
  /\ node = "controller_refine" =>
       LastVerdictStands /\ assessment.decision \in {"insufficient", "conflicting"}
  /\ node \in (Nodes \ {"acquisition_stage", "retrieval_agent", "evidence_judge"})
       \cup {"end"} => assessment = NoAssessment \/ LastVerdictStands

\* a plan that follows only failed ones
LEMMA AppendedHistory ==
  ASSUME history \in Seq(HistoryEntry), EarlierPlansFailed,
         Len(history) > 0 => history[Len(history)].verdict \in {"insufficient", "conflicting"},
         NEW entry \in HistoryEntry, history' = Append(history, entry)
  PROVE  EarlierPlansFailed' /\ Len(history') > 0
<1>1. /\ Len(history) \in Nat /\ Len(history') = Len(history) + 1
      /\ \A i \in 1 .. Len(history) : history'[i] = history[i]
  OBVIOUS
<1>2. ASSUME NEW i \in 1 .. Len(history'), i < Len(history')
      PROVE  history'[i].verdict \in {"insufficient", "conflicting"}
  <2>1. i \in 1 .. Len(history)
    BY <1>1, <1>2
  <2>2. CASE i < Len(history)
    BY <1>1, <2>1, <2>2 DEF EarlierPlansFailed
  <2>3. CASE i = Len(history)
    BY <1>1, <2>1, <2>3
  <2> QED
    BY <1>1, <2>1, <2>2, <2>3
<1> QED
  BY <1>1, <1>2 DEF EarlierPlansFailed

\* the verdict is recorded with the last plan and with no other
LEMMA RecordedVerdict ==
  ASSUME history \in Seq(HistoryEntry), Len(history) > 0, EarlierPlansFailed,
         NEW d \in Verdicts, assessment'.decision = d,
         history' = [history EXCEPT ![Len(history)].verdict = d]
  PROVE  EarlierPlansFailed' /\ LastVerdictStands'
<1>1. Len(history) \in Nat /\ history \in [1 .. Len(history) -> HistoryEntry]
  BY LenProperties
<1>2. history' \in Seq(HistoryEntry) /\ Len(history') = Len(history)
  BY <1>1, JudgedHistory, LenProperties
<1>3. \A i \in 1 .. Len(history) : i < Len(history) => history'[i] = history[i]
  BY <1>1
<1>4. history'[Len(history)].verdict = d
  BY <1>1 DEF HistoryEntry
<1> QED
  BY <1>1, <1>2, <1>3, <1>4 DEF EarlierPlansFailed, LastVerdictStands

LEMMA HistoryInit == Init => HistoryInv
<1> SUFFICES ASSUME Init PROVE HistoryInv
  OBVIOUS
<1>1. history = <<>> /\ Len(history) = 0 /\ assessment = NoAssessment /\ node = "initialize_run"
  BY DEF Init
<1> QED
  BY <1>1 DEF HistoryInv, EarlierPlansFailed, LastVerdictStands

LEMMA HistoryNext == TypeOK /\ HistoryInv /\ [Next]_vars => HistoryInv'
<1> SUFFICES ASSUME TypeOK, HistoryInv, [Next]_vars PROVE HistoryInv'
  OBVIOUS
<1>0. history \in Seq(HistoryEntry) /\ Len(history) \in Nat
  BY TypeParts DEF PlanTyped
<1> USE DEF Step, Raise
\* a node that plans nothing and judges nothing hands on what it was given
<1>1. ASSUME UNCHANGED <<history, assessment>>,
             node' \in {"initialize_run", "load_session_memory", "controller_decide"} =>
               node \in {"initialize_run", "load_session_memory", "controller_decide"},
             node' \in {"acquisition_stage", "retrieval_agent", "evidence_judge"} =>
               node \in {"acquisition_stage", "retrieval_agent", "evidence_judge"},
             node' # "controller_refine",
             node \in (Nodes \ {"acquisition_stage", "retrieval_agent", "evidence_judge"})
               \cup {"end"}
             \/ node' \in {"acquisition_stage", "retrieval_agent", "evidence_judge", "failed"}
      PROVE  HistoryInv'
  <2>1. EarlierPlansFailed' /\ (LastVerdictStands <=> LastVerdictStands')
    BY <1>1 DEF HistoryInv, EarlierPlansFailed, LastVerdictStands
  <2> QED
    BY <1>1, <2>1 DEF HistoryInv, Nodes
<1>2. CASE InitializeRun \/ LoadSessionMemory
  <2>1. /\ UNCHANGED <<history, assessment>>
        /\ node \in {"initialize_run", "load_session_memory"}
        /\ node' \in {"load_session_memory", "controller_decide"}
    BY <1>2 DEF InitializeRun, LoadSessionMemory, planVars
  <2> QED
    BY <1>1, <2>1 DEF Nodes
<1>3. ASSUME node = "controller_decide", NEW entry \in HistoryEntry,
             history' = Append(history, entry), UNCHANGED assessment,
             node' \in {"acquisition_stage", "clarification_terminal", "abstention_terminal"}
      PROVE  HistoryInv'
  <2>1. history = <<>> /\ Len(history) = 0 /\ assessment = NoAssessment
    BY <1>3 DEF HistoryInv
  <2>2. EarlierPlansFailed' /\ Len(history') > 0
    BY <1>0, <1>3, <2>1, AppendedHistory DEF HistoryInv
  <2> QED
    BY <1>3, <2>1, <2>2 DEF HistoryInv
<1>4. CASE ControllerAbstains
  <2>1. [action |-> "abstain", verdict |-> "abstain"] \in HistoryEntry
    BY DEF HistoryEntry, Actions, TerminalActions, Verdicts, Decisions
  <2>2. node' \in {"acquisition_stage", "clarification_terminal", "abstention_terminal"}
    BY <1>4, ControllerRoutes DEF ControllerAbstains
  <2> QED
    BY <1>3, <1>4, <2>1, <2>2 DEF ControllerAbstains
<1>5. CASE ControllerDecide
  <2>1. plan' \in Actions /\ history' = Append(history, [action |-> plan', verdict |-> "none"])
    BY <1>5, PlanTypes, ProposalsAreActions DEF ControllerDecide
  <2>2. [action |-> plan', verdict |-> "none"] \in HistoryEntry
    BY <2>1 DEF HistoryEntry, Verdicts
  <2>3. node' \in {"acquisition_stage", "clarification_terminal", "abstention_terminal"}
    BY <1>5, ControllerRoutes DEF ControllerDecide
  <2> QED
    BY <1>3, <1>5, <2>1, <2>2, <2>3 DEF ControllerDecide
<1>6. CASE AcquisitionStage \/ RetrievalAgent \/ RetrievalFails
  <2>1. /\ UNCHANGED <<history, assessment>>
        /\ node \in {"acquisition_stage", "retrieval_agent"}
        /\ node' \in {"retrieval_agent", "evidence_judge", "failed"}
    BY <1>6 DEF AcquisitionStage, RetrievalAgent, RetrievalFails, planVars
  <2> QED
    BY <1>1, <2>1
<1>7. CASE EvidenceJudge
  <2>1. /\ assessment' \in [decision : Decisions, promoted : BOOLEAN]
        /\ node = "evidence_judge" /\ node' = RouteAfterJudge(assessment'.decision)
        /\ history' = [history EXCEPT ![Len(history)].verdict = assessment'.decision]
    BY <1>7, JudgeTypes
  <2>2. assessment'.decision \in Decisions /\ assessment'.decision \in Verdicts
    BY <2>1 DEF Verdicts
  <2>3. Len(history) > 0 /\ EarlierPlansFailed
    BY <2>1 DEF HistoryInv
  <2>4. EarlierPlansFailed' /\ LastVerdictStands'
    BY <1>0, <2>1, <2>2, <2>3, RecordedVerdict
  <2>5. /\ node' \in {"terminal_ready", "clarification_terminal", "controller_refine",
                      "conflicting_terminal", "abstention_terminal"}
        /\ node' = "controller_refine" =>
             assessment'.decision \in {"insufficient", "conflicting"}
    BY <2>1, <2>2, JudgeRoutes
  <2> QED
    BY <2>4, <2>5 DEF HistoryInv
<1>8. CASE ControllerRefine
  <2>1. plan' \in Actions /\ history' = Append(history, [action |-> plan', verdict |-> "none"])
    BY <1>8, PlanTypes, ProposalsAreActions DEF ControllerRefine
  <2>2. [action |-> plan', verdict |-> "none"] \in HistoryEntry
    BY <2>1 DEF HistoryEntry, Verdicts
  <2>3. node = "controller_refine" /\ node' = "retrieval_agent"
    BY <1>8 DEF ControllerRefine
  <2>4. EarlierPlansFailed' /\ Len(history') > 0
    BY <1>0, <2>1, <2>2, <2>3, AppendedHistory DEF HistoryInv, LastVerdictStands
  <2> QED
    BY <2>3, <2>4 DEF HistoryInv
<1>9. CASE \/ TerminalReady \/ ContextBuilder \/ ContextBuilderFails \/ GenerateAnswerAbstains
           \/ GenerateAnswerRaises \/ GenerateAnswer \/ PersistTurn
           \/ ClarificationTerminal \/ AbstentionTerminal \/ ConflictingTerminal
  <2>1. /\ UNCHANGED <<history, assessment>>
        /\ node \in {"terminal_ready", "context_builder", "generate_answer", "persist_turn",
                     "clarification_terminal", "abstention_terminal", "conflicting_terminal"}
        /\ node' \in {"context_builder", "generate_answer", "persist_turn", "end", "failed"}
    BY <1>9 DEF TerminalReady, ContextBuilder, ContextBuilderFails, GenerateAnswerAbstains,
                GenerateAnswerRaises, GenerateAnswer, PersistTurn, ClarificationTerminal,
                AbstentionTerminal, ConflictingTerminal, Terminal, planVars
  <2> QED
    BY <1>1, <2>1 DEF Nodes
<1>10. CASE RecursionLimitReached
  <2>1. UNCHANGED <<history, assessment>> /\ node' = "failed"
    BY <1>10 DEF RecursionLimitReached, planVars
  <2> QED
    BY <1>1, <2>1
<1>11. CASE Finished \/ UNCHANGED vars
  BY <1>11 DEF Finished, vars, HistoryInv, EarlierPlansFailed, LastVerdictStands, planVars
<1> QED
  BY <1>2, <1>4, <1>5, <1>6, <1>7, <1>8, <1>9, <1>10, <1>11 DEF Next

\* T9. A plan is followed by another one only if its evidence was found wanting, and
\* a judged run ends with the verdict of its last plan (nodes.py:334).
THEOREM RefinementsAreJustified == Spec => []RefinementsJustified
<1>1. TypeOK /\ HistoryInv => RefinementsJustified
  <2> SUFFICES ASSUME TypeOK, HistoryInv PROVE RefinementsJustified
    OBVIOUS
  <2>1. DOMAIN history = 1 .. Len(history)
    BY TypeParts DEF PlanTyped
  <2>2. \A i \in DOMAIN history :
          i < Len(history) => history[i].verdict \in {"insufficient", "conflicting"}
    BY <2>1 DEF HistoryInv, EarlierPlansFailed
  <2>3. ASSUME node = "end", assessment # NoAssessment
        PROVE  history[Len(history)].verdict = assessment.decision
    <3>1. LastVerdictStands
      BY <2>3 DEF HistoryInv
    <3> QED
      BY <3>1, Zenon DEF LastVerdictStands
  <2> QED
    BY <2>2, <2>3, Zenon DEF RefinementsJustified
<1> QED
  BY <1>1, HistoryInit, HistoryNext, TypeCorrect, PTL DEF Spec

(***************************************************************************)
(* The citations of an answer.                                             *)
(***************************************************************************)

ContextIds == {EvidenceId(item) : item \in context.items}

CitationInv ==
  /\ context.items \subseteq evidence
  /\ answer.citations \subseteq EvidenceIds
  /\ answer.by = "generator" => answer.citations \subseteq ContextIds
  /\ node \notin {"persist_turn", "end", "failed"} => answer = NoAnswer

LEMMA EvidenceOnlyGrows == [Next]_vars => evidence \subseteq evidence'
<1> SUFFICES ASSUME [Next]_vars PROVE evidence \subseteq evidence'
  OBVIOUS
<1>1. CASE RetrievalAgent
  BY <1>1 DEF RetrievalAgent, AcquireEvidence, acquisitionVars
<1>2. CASE EvidenceJudge
  BY <1>2, Zenon DEF EvidenceJudge, acquisitionVars
<1>3. CASE ~(RetrievalAgent \/ EvidenceJudge)
  BY <1>3
     DEF Next, vars, acquisitionVars, InitializeRun, LoadSessionMemory, ControllerAbstains,
     ControllerDecide, AcquisitionStage, RetrievalFails, ControllerRefine, TerminalReady,
     ContextBuilder, ContextBuilderFails, GenerateAnswerRaises, GenerateAnswerAbstains,
     GenerateAnswer, PersistTurn, Terminal, ClarificationTerminal, AbstentionTerminal,
     ConflictingTerminal, RecursionLimitReached, Finished
<1> QED
  BY <1>1, <1>2, <1>3

LEMMA CitationInit == Init => CitationInv
BY DEF Init, CitationInv, NoContext, NoAnswer

LEMMA CitationNext == TypeOK /\ CitationInv /\ [Next]_vars => CitationInv'
<1> SUFFICES ASSUME TypeOK, CitationInv, [Next]_vars PROVE CitationInv'
  OBVIOUS
<1>0. evidence \subseteq evidence' /\ EvidenceIds \subseteq EvidenceIds'
  BY EvidenceOnlyGrows DEF EvidenceIds
<1>1. CASE ContextBuilder
  <2>1. /\ context'.items \subseteq evidence /\ UNCHANGED <<evidence, answer>>
        /\ node = "context_builder"
    BY <1>1 DEF ContextBuilder, acquisitionVars, Step
  <2> QED
    BY <2>1, <1>0 DEF CitationInv, NoAnswer
<1>2. CASE GenerateAnswer
  <2>1. UNCHANGED <<evidence, context>> /\ node' = "persist_turn"
    BY <1>2 DEF GenerateAnswer, acquisitionVars, Step
  <2>2. PICK cited \in SUBSET CitationIds :
          \/ answer' = [by |-> "graph", citations |-> {}]
          \/ answer' = [by |-> "generator",
                        citations |-> IF evidence = {} THEN Grounded(cited, ContextIds)
                                      ELSE Grounded(cited, ContextIds) \intersect EvidenceIds]
    BY <1>2, Zenon DEF GenerateAnswer, ContextIds
  <2>3. /\ answer'.citations \subseteq ContextIds
        /\ EvidenceIds' = EvidenceIds /\ ContextIds' = ContextIds
    BY <2>1, <2>2 DEF Grounded, EvidenceIds, ContextIds
  <2>4. ContextIds \subseteq EvidenceIds
    BY DEF CitationInv, ContextIds, EvidenceIds
  <2> QED
    BY <2>1, <2>3, <2>4 DEF CitationInv
<1>3. CASE GenerateAnswerAbstains \/ ClarificationTerminal \/ AbstentionTerminal
  <2>1. /\ answer' = [by |-> "graph", citations |-> {}] /\ UNCHANGED <<context, evidence>>
        /\ node' = "persist_turn"
    BY <1>3 DEF GenerateAnswerAbstains, ClarificationTerminal, AbstentionTerminal, Terminal, Step,
                acquisitionVars
  <2> QED
    BY <2>1 DEF CitationInv
<1>4. CASE ConflictingTerminal
  <2>1. PICK cited \in SUBSET EvidenceIds : answer' = [by |-> "graph", citations |-> cited]
    BY <1>4 DEF ConflictingTerminal, Terminal
  <2>2. UNCHANGED <<context, evidence>> /\ node' = "persist_turn"
    BY <1>4 DEF ConflictingTerminal, Terminal, Step, acquisitionVars
  <2> QED
    BY <2>1, <2>2, <1>0 DEF CitationInv
<1>5. CASE EvidenceJudge
  <2>1. UNCHANGED <<context, answer>> /\ node = "evidence_judge"
    BY <1>5, JudgeTypes DEF outcomeVars, Step
  <2> QED
    BY <2>1, <1>0 DEF CitationInv, NoAnswer
<1>6. CASE \/ InitializeRun \/ LoadSessionMemory \/ ControllerAbstains \/ ControllerDecide
           \/ AcquisitionStage \/ RetrievalAgent \/ ControllerRefine \/ TerminalReady
  <2>1. UNCHANGED <<context, answer>>
    BY <1>6 DEF InitializeRun, LoadSessionMemory, ControllerAbstains, ControllerDecide,
                AcquisitionStage, RetrievalAgent, ControllerRefine, TerminalReady, outcomeVars
  <2>2. node \notin {"persist_turn", "end", "failed"}
    BY <1>6 DEF InitializeRun, LoadSessionMemory, ControllerAbstains, ControllerDecide,
                AcquisitionStage, RetrievalAgent, ControllerRefine, TerminalReady, Step
  <2> QED
    BY <2>1, <2>2, <1>0 DEF CitationInv, NoAnswer
<1>7. CASE \/ RetrievalFails \/ ContextBuilderFails \/ GenerateAnswerRaises \/ PersistTurn
           \/ RecursionLimitReached \/ Finished \/ UNCHANGED vars
  <2>1. UNCHANGED <<context, answer, evidence>>
    BY <1>7 DEF RetrievalFails, ContextBuilderFails, GenerateAnswerRaises, PersistTurn,
                RecursionLimitReached, Finished, vars, outcomeVars, acquisitionVars
  <2>2. node' \in {"end", "failed"} \/ node' = node
    BY <1>7 DEF RetrievalFails, ContextBuilderFails, GenerateAnswerRaises, PersistTurn,
                RecursionLimitReached, Finished, vars, Step, Raise
  <2> QED
    BY <2>1, <2>2 DEF CitationInv, ContextIds, EvidenceIds
<1> QED
  BY <1>1, <1>2, <1>3, <1>4, <1>5, <1>6, <1>7 DEF Next

\* T10. Whatever ids the generator makes up, an answer cites evidence of its own run
\* only, and one the generator wrote cites what its context held.
THEOREM CitationsAreGrounded ==
  Spec => [](/\ answer.citations \subseteq EvidenceIds
             /\ answer.by = "generator" => answer.citations \subseteq ContextIds)
<1>1. CitationInv => /\ answer.citations \subseteq EvidenceIds
                     /\ answer.by = "generator" => answer.citations \subseteq ContextIds
  BY DEF CitationInv
<1> QED
  BY <1>1, CitationInit, CitationNext, TypeCorrect, PTL DEF Spec
(***************************************************************************)
(* Runs that cannot be answered: a verdict promoted because the iterations *)
(* are used up, and a tool's result.                                       *)
(***************************************************************************)

Unanswered == metered["generator"] = 0 /\ answer.by # "generator"

VainInv ==
  /\ assessment.promoted => AtIterationLimit
  /\ assessment.promoted \/ toolCalls > 0 => Unanswered
  /\ node = "generate_answer" => toolCalls = 0

\* The judge promotes a verdict at the iteration limit only.
LEMMA PromotedAtTheLimit ==
  ASSUME EvidenceJudge, assessment'.promoted
  PROVE  AtIterationLimit
<1>1. ASSUME NEW a \in FastVerdicts PROVE a.promoted = FALSE
  <2>1. \A d : Judged(d).promoted = FALSE
    BY DEF Judged
  <2>2. CASE plan \in TerminalActions
    BY <1>1, <2>1, <2>2 DEF FastVerdicts, TerminalActions
  <2>3. CASE plan \notin TerminalActions /\ evidence = {}
    BY <1>1, <2>1, <2>3 DEF FastVerdicts, TerminalActions
  <2>4. CASE plan \notin TerminalActions /\ evidence # {}
    BY <1>1, <2>4 DEF FastVerdicts, TerminalActions
  <2> QED
    BY <2>2, <2>3, <2>4
<1>2. \A a \in HeuristicVerdicts : a.promoted = FALSE
  BY DEF HeuristicVerdicts, Judged
<1>3. \A a \in LLMVerdicts : a.promoted = FALSE \/ AtIterationLimit
  BY DEF LLMVerdicts, Judged
<1>4. assessment' \in FastVerdicts \union LLMVerdicts \union HeuristicVerdicts
  BY Zenon DEF EvidenceJudge
<1> QED
  BY <1>1, <1>2, <1>3, <1>4

\* Before the generator has run, nothing is answered.
LEMMA OpenRunsAreUnanswered ==
  ASSUME GateInv, CitationInv, node \notin {"persist_turn", "end", "failed"}
  PROVE  Unanswered
BY DEF GateInv, GeneratorFitsNode, CitationInv, NoAnswer, Unanswered

LEMMA VainInit == Init => VainInv
BY DEF Init, VainInv, NoAssessment

LEMMA VainNext == TypeOK /\ GateInv /\ CitationInv /\ VainInv /\ [Next]_vars => VainInv'
<1> SUFFICES ASSUME TypeOK, GateInv, CitationInv, VainInv, [Next]_vars PROVE VainInv'
  OBVIOUS
<1>1. iterations \in Nat /\ request.budgets.iterations \in Int
  BY BudgetsAreIntegers DEF TypeOK
<1>2. CASE EvidenceJudge
  <2>1. /\ node = "evidence_judge" /\ node' = RouteAfterJudge(assessment'.decision)
        /\ assessment'.decision \in Decisions
        /\ metered'["generator"] = metered["generator"]
        /\ UNCHANGED <<request, iterations, toolCalls, answer>>
    BY <1>2, JudgeTypes DEF Step, inputVars, acquisitionVars, outcomeVars
  <2>2. Unanswered'
    BY <2>1, OpenRunsAreUnanswered DEF Unanswered
  <2>3. node' # "generate_answer"
    BY <2>1, JudgeRoutes
  <2>4. assessment'.promoted => AtIterationLimit'
    BY <1>2, <2>1, PromotedAtTheLimit DEF AtIterationLimit
  <2> QED
    BY <2>2, <2>3, <2>4 DEF VainInv
<1>3. CASE RetrievalAgent
  <2>1. /\ node = "retrieval_agent" /\ node' = "evidence_judge"
        /\ iterations' \in {iterations, iterations + 1}
        /\ UNCHANGED <<request, assessment, metered, answer>>
    BY <1>3 DEF RetrievalAgent, CountAcquisition, Step, inputVars, acquisitionVars, outcomeVars
  <2>2. Unanswered'
    BY <2>1, OpenRunsAreUnanswered DEF Unanswered
  <2>3. AtIterationLimit => AtIterationLimit'
    BY <1>1, <2>1 DEF AtIterationLimit
  <2> QED
    BY <2>1, <2>2, <2>3 DEF VainInv
<1>4. CASE ContextBuilder
  <2>1. /\ toolCalls' = 0 /\ UNCHANGED <<request, iterations, toolCalls, assessment, metered, answer>>
    BY <1>4 DEF ContextBuilder, Step, inputVars, acquisitionVars
  <2> QED
    BY <2>1 DEF VainInv, Unanswered, AtIterationLimit
<1>5. CASE GenerateAnswer
  <2>1. /\ node = "generate_answer" /\ node' = "persist_turn" /\ ~AtIterationLimit
        /\ UNCHANGED <<request, iterations, toolCalls, assessment>>
    BY <1>5 DEF GenerateAnswer, Step, inputVars, acquisitionVars, BudgetsExceeded, AtIterationLimit
  <2>2. toolCalls' = 0 /\ ~assessment'.promoted
    BY <2>1 DEF VainInv
  <2> QED
    BY <2>1, <2>2 DEF VainInv
<1>6. CASE ControllerDecide \/ ControllerRefine
  <2>1. /\ node \notin {"persist_turn", "end", "failed"}
        /\ node' # "generate_answer"
        /\ UNCHANGED <<request, iterations, toolCalls, assessment, answer>>
    BY <1>6, ControllerRoutes
       DEF ControllerDecide, ControllerRefine, Step, inputVars, acquisitionVars, outcomeVars
  <2>2. metered'["generator"] = metered["generator"]
    BY <1>6, PlanTypes, ProposalsAreActions DEF ControllerDecide, ControllerRefine
  <2>3. Unanswered'
    BY <2>1, <2>2, OpenRunsAreUnanswered DEF Unanswered
  <2> QED
    BY <2>1, <2>3 DEF VainInv, AtIterationLimit
<1>7. CASE GenerateAnswerAbstains \/ ClarificationTerminal \/ AbstentionTerminal \/ ConflictingTerminal
  <2>1. /\ UNCHANGED <<request, iterations, toolCalls, assessment, metered>>
        /\ answer'.by = "graph" /\ node' = "persist_turn"
    BY <1>7 DEF GenerateAnswerAbstains, ClarificationTerminal, AbstentionTerminal,
                ConflictingTerminal, Terminal, Step, inputVars, acquisitionVars
  <2> QED
    BY <2>1 DEF VainInv, Unanswered, AtIterationLimit
<1>8. CASE \/ InitializeRun \/ LoadSessionMemory \/ ControllerAbstains \/ AcquisitionStage
           \/ TerminalReady \/ RetrievalFails \/ ContextBuilderFails \/ GenerateAnswerRaises
           \/ PersistTurn \/ RecursionLimitReached \/ Finished \/ UNCHANGED vars
  <2>1. UNCHANGED <<request, iterations, toolCalls, assessment, metered, answer>>
    BY <1>8 DEF InitializeRun, LoadSessionMemory, ControllerAbstains, AcquisitionStage,
                TerminalReady, RetrievalFails, ContextBuilderFails, GenerateAnswerRaises,
                PersistTurn, RecursionLimitReached, Finished, vars, Step, Raise, inputVars,
                acquisitionVars, outcomeVars
  <2>2. node' # "generate_answer" \/ node' = node
    BY <1>8, ControllerRoutes
       DEF InitializeRun, LoadSessionMemory, ControllerAbstains, AcquisitionStage,
           TerminalReady, RetrievalFails, ContextBuilderFails, GenerateAnswerRaises,
           PersistTurn, RecursionLimitReached, Finished, vars, Step, Raise
  <2> QED
    BY <2>1, <2>2 DEF VainInv, Unanswered, AtIterationLimit
<1> QED
  BY <1>2, <1>3, <1>4, <1>5, <1>6, <1>7, <1>8 DEF Next

LEMMA VainAlways == Spec => [](TypeOK /\ VainInv)
<1>1. Init => CitationInv /\ GateInv /\ VainInv
  BY CitationInit, GateInit, VainInit
<1>2. /\ TypeOK /\ CitationInv /\ GateInv /\ VainInv /\ [Next]_vars
        => CitationInv' /\ GateInv' /\ VainInv'
  BY CitationNext, GateNext, VainNext
<1> QED
  BY <1>1, <1>2, TypeCorrect, PTL DEF Spec

\* T11. Evidence promoted to sufficient because the iterations are used up is never
\* synthesised: what the reason code at evidence_judge.py:277 announces happens to no
\* promotion, for generate_answer_node finds the same budget spent (nodes.py:434).
THEOREM PromotionsAreInVain == Spec => [](assessment.promoted => Unanswered)
<1>1. VainInv => (assessment.promoted => Unanswered)
  BY DEF VainInv
<1> QED
  BY <1>1, VainAlways, PTL

\* T12. A run that called a tool is never answered: the context builder cannot size a
\* tool's result (context_builder.py:63), and every other way out is a terminal node.
THEOREM ToolRunsAreNeverAnswered == Spec => [](toolCalls > 0 => Unanswered)
<1>1. VainInv => (toolCalls > 0 => Unanswered)
  BY DEF VainInv
<1> QED
  BY <1>1, VainAlways, PTL
=============================================================================

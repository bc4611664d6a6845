------------------------------ MODULE RunGraph ------------------------------
(***************************************************************************)
(* One query run: the LangGraph workflow that create_kriyaman_graph wires  *)
(* and the node functions of GraphNodes, executed one node per superstep   *)
(* by graph.invoke.  The state is GraphState, reduced to the fields that   *)
(* decide where the run goes and what it may claim.                        *)
(*                                                                         *)
(* What the model leaves to chance is what the code leaves to others: the  *)
(* guardrail's verdict on a query, the plan and the verdict an LLM         *)
(* returns, which passages a search finds, and whether a call fails.       *)
(***************************************************************************)
EXTENDS Integers, Sequences, FiniteSets

CONSTANTS
  Content,          \* distinct passages (up to the sha256 used to deduplicate)
  StrongContent,    \* passages whose retrieval_score is at least 0.50
  ToolEvidenceId,   \* the evidence_id retrieval_agent.py:129 gives a tool result
  Invented,         \* citation ids a generator may make up
  Budgets,          \* the ExecutionBudgets a request may carry
  PlannerActions,   \* the actions the planner LLM may propose
  RecursionLimit    \* supersteps LangGraph allows one invocation (external)

SearchActions == {"vector_search", "hybrid_search", "metadata_filter",
                  "web_search", "memory_search"}
RetrievalActions == SearchActions \union {"refine_query"}
TerminalActions == {"clarify", "abstain", "no_acquisition_required"}
Actions == RetrievalActions \union TerminalActions \union {"tool_call", "answer"}

ASSUME ContentAssumption ==
  /\ StrongContent \subseteq Content
  /\ ToolEvidenceId \notin Content
  /\ Invented \intersect (Content \union {ToolEvidenceId}) = {}
ASSUME BudgetsAssumption ==
  Budgets \subseteq [iterations : Int, toolCalls : Int, tokens : Int]
ASSUME PlannerAssumption == PlannerActions \subseteq Actions
ASSUME RecursionAssumption == RecursionLimit \in Nat

VARIABLES
  node,         \* the node that runs next, or "end" / "failed"
  steps,        \* supersteps taken
  failure,      \* the exception that left graph.invoke
  request,      \* what execute_run fixed: providers, documents, budgets
  rejected,     \* guardrail_rejected
  plan,         \* controller_plan.action
  history,      \* plan_history
  evidence,     \* evidence
  assessment,   \* evidence_assessment
  iterations,   \* retrieval_iterations
  toolCalls,    \* tool_calls; tool_results holds one entry per call
  usage,        \* usage, the UsageSnapshot that the budget checks read
  metered,      \* successful LLM calls per role, as the gateway accumulates them
  events,       \* execution_events
  context,      \* context_package
  answer,       \* answer
  status        \* status

inputVars == <<request, usage>>
planVars == <<plan, history>>
acquisitionVars == <<evidence, iterations, toolCalls>>
outcomeVars == <<context, answer, status>>
vars == <<node, steps, failure, request, rejected, plan, history, evidence,
          assessment, iterations, toolCalls, usage, metered, events, context,
          answer, status>>

Nodes == {"initialize_run", "load_session_memory", "controller_decide",
          "acquisition_stage", "retrieval_agent", "evidence_judge",
          "controller_refine", "clarification_terminal", "abstention_terminal",
          "conflicting_terminal", "terminal_ready", "context_builder",
          "generate_answer", "persist_turn"}
Failures == {"retrieval", "provider", "context", "policy", "recursion"}
Decisions == {"sufficient", "insufficient", "conflicting", "clarification", "abstain"}
Verdicts == Decisions \union {"none"}
Statuses == {"running", "answer", "abstention", "clarification", "conflicting"}
Roles == {"planner", "judge", "generator"}
EventTypes == {"run_initialized", "guardrail_rejected", "memory_loaded",
               "budget_exceeded_before_planning", "plan_validation_failed",
               "controller_plan_created", "acquisition_stage_routed",
               "budget_exceeded_before_retrieval", "acquisition_executed",
               "evidence_judged", "controller_plan_refined",
               "context_constructed", "generation_budget_exceeded",
               "generation_abstained_no_llm", "output_guardrail_rejected",
               "answer_generated", "run_persisted",
               "clarification_terminal_reached", "abstention_terminal_reached",
               "conflicting_terminal_reached"}

Items == [content : Content, source : {"search", "tool"}]
EvidenceId(item) == IF item.source = "tool" THEN ToolEvidenceId ELSE item.content
EvidenceIds == {EvidenceId(item) : item \in evidence}
CitationIds == Content \union {ToolEvidenceId} \union Invented

Requests == [llm : BOOLEAN, web : BOOLEAN, documents : BOOLEAN, budgets : Budgets]
ZeroUsage == [iterations |-> 0, toolCalls |-> 0, tokens |-> 0]
NoAssessment == [decision |-> "none", promoted |-> FALSE]
NoContext == [built |-> FALSE, items |-> {}]
NoAnswer == [by |-> "nobody", citations |-> {}]

-----------------------------------------------------------------------------
(***************************************************************************)
(* Budgets and the emission of events, used by every node.                 *)
(***************************************************************************)

\* mutant: a budget may be overrun by one
BudgetsOverrun ==
  \/ iterations > request.budgets.iterations
  \/ toolCalls > request.budgets.toolCalls
  \/ usage.tokens > request.budgets.tokens

\* check_budgets_exceeded: the two counters of the graph and the metered ones
BudgetsExceeded ==
  \/ iterations >= request.budgets.iterations
  \/ toolCalls >= request.budgets.toolCalls
  \/ usage.tokens >= request.budgets.tokens

\* events appended one after the other, each numbered by the list's length
Emit(types) ==
  events' = events \o [i \in 1..Len(types) |->
                         [sequence |-> Len(events) + i - 1, event_type |-> types[i]]]

\* the running node hands over to next, within LangGraph's superstep allowance
Step(here, next) ==
  /\ node = here
  /\ steps < RecursionLimit
  /\ node' = next
  /\ steps' = steps + 1
  /\ UNCHANGED <<failure, inputVars>>

\* the running node raises: graph.invoke propagates the exception
Raise(here, kind) ==
  /\ node = here
  /\ steps < RecursionLimit
  /\ node' = "failed"
  /\ failure' = kind
  /\ steps' = steps + 1
  /\ UNCHANGED inputVars

-----------------------------------------------------------------------------
(***************************************************************************)
(* The controller and the plan validator.                                  *)
(***************************************************************************)

InternalSearches == {"vector_search", "hybrid_search"}
Tried(actions) == \E i \in DOMAIN history : history[i].action \in actions

\* the planner LLM's proposals, a web search replaced when web is off; a first
\* plan is broadened when the query names several documents
Proposed(instead) ==
  {IF a = "web_search" /\ ~request.web THEN instead ELSE a : a \in PlannerActions}
DecidedByLLM ==
  LET proposals == Proposed("vector_search") IN
  proposals \union {a \in {"hybrid_search"} :
                      request.documents /\ proposals \intersect InternalSearches # {}}
RefinedByLLM == Proposed("hybrid_search")

\* AgentController.decide without the LLM: greetings and explicit tool
\* requests before it, the default first pass after it has failed
DecidedByRule == {"no_acquisition_required", "tool_call",
                  IF request.web /\ ~request.documents THEN "web_search"
                                                       ELSE "vector_search"}

AtIterationLimit == iterations >= request.budgets.iterations

\* mutant: no plan after a second hybrid search
RefinedByRuleWithoutDefault ==
  IF AtIterationLimit THEN {"abstain"}
  ELSE IF plan = "vector_search" THEN {"hybrid_search"} ELSE {"none"}

\* AgentController.refine when it gives up, and when the LLM is absent or failed
RefinedByRule ==
  IF AtIterationLimit
  THEN {IF assessment.decision = "insufficient" THEN "abstain" ELSE "no_acquisition_required"}
  ELSE IF request.web /\ Tried(InternalSearches) /\ ~Tried({"web_search"})
  THEN {"web_search"}
  ELSE IF plan = "vector_search" \/ assessment.decision = "conflicting"
       THEN {"hybrid_search"}
       ELSE {"vector_search"}

\* PlanValidator.validate: the action that survives, and whether the plan did;
\* a search or a tool call may also be refused for its query, its tool or its
\* arguments
Accepted(action) == [action |-> action, valid |-> TRUE]
Replaced(action) == [action |-> action, valid |-> FALSE]
Validated(action) ==
  IF action = "web_search" /\ ~request.web
  THEN {Replaced("vector_search")}
  ELSE IF \/ action \in RetrievalActions /\ usage.iterations >= request.budgets.iterations
          \/ action = "tool_call" /\ usage.toolCalls >= request.budgets.toolCalls
  THEN {Replaced("abstain")}
  ELSE IF action \in RetrievalActions \union {"tool_call"}
  THEN {Accepted(action), Replaced("abstain")}
  ELSE {Accepted(action)}

\* the plan the controller proposes and the validator lets through; an LLM
\* proposal costs a metered planner call
Plan(byRule, byLLM, types) ==
  \E useLLM \in {FALSE, request.llm /\ ~AtIterationLimit} :
    \E action \in (IF useLLM THEN byLLM ELSE byRule) :
      \E outcome \in Validated(action) :
        /\ plan' = outcome.action
        /\ history' = Append(history, [action |-> outcome.action, verdict |-> "none"])
        /\ metered' = [metered EXCEPT !["planner"] = @ + (IF useLLM THEN 1 ELSE 0)]
        /\ Emit(IF outcome.valid THEN types ELSE <<"plan_validation_failed">> \o types)

RouteAfterController(action) ==
  IF BudgetsExceeded THEN "abstention_terminal"
  ELSE IF action = "clarify" THEN "clarification_terminal"
  ELSE IF action = "abstain" THEN "abstention_terminal"
  ELSE "acquisition_stage"

-----------------------------------------------------------------------------
(***************************************************************************)
(* The nodes, in the order a run meets them.                               *)
(***************************************************************************)

Init ==
  /\ node = "initialize_run"
  /\ steps = 0
  /\ failure = "none"
  /\ request \in Requests
  /\ rejected = FALSE
  /\ plan = "none"
  /\ history = <<>>
  /\ evidence = {}
  /\ assessment = NoAssessment
  /\ iterations = 0
  /\ toolCalls = 0
  /\ usage = ZeroUsage
  /\ metered = [r \in Roles |-> 0]
  /\ events = <<>>
  /\ context = NoContext
  /\ answer = NoAnswer
  /\ status = "running"

\* the input guardrail accepts or rejects the query
InitializeRun ==
  /\ Step("initialize_run", "load_session_memory")
  /\ \E allowed \in BOOLEAN :
       /\ rejected' = ~allowed
       /\ status' = IF allowed THEN "running" ELSE "abstention"
       /\ Emit(IF allowed THEN <<"run_initialized">>
                          ELSE <<"run_initialized", "guardrail_rejected">>)
  /\ UNCHANGED <<planVars, acquisitionVars, assessment, metered, context, answer>>

LoadSessionMemory ==
  /\ Step("load_session_memory", "controller_decide")
  /\ Emit(<<"memory_loaded">>)
  /\ UNCHANGED <<rejected, planVars, acquisitionVars, assessment, metered, outcomeVars>>

\* a rejected query, or one with no budget at all, is planned as an abstention
\* without asking the controller
ControllerAbstains ==
  /\ Step("controller_decide", RouteAfterController("abstain"))
  /\ rejected \/ BudgetsExceeded
  /\ plan' = "abstain"
  /\ history' = Append(history, [action |-> "abstain", verdict |-> "abstain"])
  /\ Emit(IF rejected THEN <<"controller_plan_created">>
                      ELSE <<"budget_exceeded_before_planning">>)
  /\ UNCHANGED <<rejected, acquisitionVars, assessment, metered, outcomeVars>>

\* mutant: the guardrail's flag is not honoured
ControllerDecideUnguarded ==
  /\ ~BudgetsExceeded
  /\ Plan(DecidedByRule, DecidedByLLM, <<"controller_plan_created">>)
  /\ Step("controller_decide", RouteAfterController(plan'))
  /\ UNCHANGED <<rejected, acquisitionVars, assessment, outcomeVars>>

ControllerDecide ==
  /\ ~rejected
  /\ ~BudgetsExceeded
  /\ Plan(DecidedByRule, DecidedByLLM, <<"controller_plan_created">>)
  /\ Step("controller_decide", RouteAfterController(plan'))
  /\ UNCHANGED <<rejected, acquisitionVars, assessment, outcomeVars>>

AcquisitionStage ==
  /\ Step("acquisition_stage", IF plan = "no_acquisition_required"
                               THEN "evidence_judge" ELSE "retrieval_agent")
  /\ Emit(<<"acquisition_stage_routed">>)
  /\ UNCHANGED <<rejected, planVars, acquisitionVars, assessment, metered, outcomeVars>>

\* what RetrievalAgent.execute may bring back for the current plan; no memory
\* store is ever configured by build_graph
Acquirable ==
  LET found(s) == [content : s, source : {"search"}] IN
  IF plan \in {"vector_search", "hybrid_search", "metadata_filter"} \/ (plan = "web_search" /\ request.web)
  THEN {found(s) : s \in SUBSET Content}
  ELSE IF plan = "tool_call"
       THEN {{}} \union {{[content |-> c, source |-> "tool"]} : c \in Content}
       ELSE {{}}

\* items whose content is already held are dropped
Deduplicated(items) ==
  {item \in items : \A held \in evidence : held.content # item.content}

\* mutant: only internal searches are counted
CountInternalSearches ==
  /\ iterations' = IF plan \in InternalSearches THEN iterations + 1 ELSE iterations
  /\ toolCalls' = IF plan = "tool_call" THEN toolCalls + 1 ELSE toolCalls

CountAcquisition ==
  /\ iterations' = IF plan \in SearchActions THEN iterations + 1 ELSE iterations
  /\ toolCalls' = IF plan = "tool_call" THEN toolCalls + 1 ELSE toolCalls
AcquireEvidence == \E items \in Acquirable : evidence' = evidence \union Deduplicated(items)

RetrievalAgent ==
  /\ Step("retrieval_agent", "evidence_judge")
  /\ \/ /\ BudgetsExceeded
        /\ Emit(<<"budget_exceeded_before_retrieval">>)
        /\ UNCHANGED acquisitionVars
     \/ /\ ~BudgetsExceeded
        /\ CountAcquisition
        /\ AcquireEvidence
        /\ Emit(<<"acquisition_executed">>)
  /\ UNCHANGED <<rejected, planVars, assessment, metered, outcomeVars>>

\* the vector store's query or a tool raises (web search catches its own)
RetrievalFails ==
  /\ Raise("retrieval_agent", "retrieval")
  /\ ~BudgetsExceeded
  /\ plan \in {"vector_search", "hybrid_search", "metadata_filter", "tool_call"}
  /\ UNCHANGED <<rejected, planVars, acquisitionVars, assessment, metered, events, outcomeVars>>

Judged(decision) == [decision |-> decision, promoted |-> FALSE]

\* verdicts that need no reading of the evidence
FastVerdicts ==
  CASE plan = "no_acquisition_required" -> {Judged("sufficient")}
    [] plan = "clarify" -> {Judged("clarification")}
    [] plan = "abstain" -> {Judged("abstain")}
    [] plan \notin TerminalActions /\ evidence = {} ->
         {Judged(IF AtIterationLimit THEN "abstain" ELSE "insufficient")}
    [] OTHER -> {}

\* the judge LLM's verdict; at the last iteration, two passages with a strong
\* one among them turn an insufficient verdict into a sufficient one
LLMVerdicts ==
  LET promotes == /\ AtIterationLimit
                  /\ Cardinality(evidence) >= 2
                  /\ \E e \in evidence : e.source = "tool" \/ e.content \in StrongContent
  IN  {Judged(d) : d \in Decisions \ (IF promotes THEN {"insufficient"} ELSE {})}
        \union (IF promotes THEN {[decision |-> "sufficient", promoted |-> TRUE]} ELSE {})

\* _heuristic_evaluate: gives up at the iteration limit, asks for more before
HeuristicVerdicts ==
  {Judged("conflicting"), Judged("sufficient"),
   Judged(IF AtIterationLimit THEN "abstain" ELSE "insufficient")}

\* mutant: a conflict that cannot be refined is an abstention
RouteAfterJudgeDroppingConflicts(decision) ==
  CASE decision = "sufficient" -> "terminal_ready"
    [] decision = "clarification" -> "clarification_terminal"
    [] decision \in {"insufficient", "conflicting"} /\ ~BudgetsExceeded -> "controller_refine"
    [] OTHER -> "abstention_terminal"

RouteAfterJudge(decision) ==
  LET mayRefine == ~BudgetsExceeded /\ iterations < request.budgets.iterations IN
  CASE decision = "sufficient" -> "terminal_ready"
    [] decision = "clarification" -> "clarification_terminal"
    [] decision = "insufficient" /\ mayRefine -> "controller_refine"
    [] decision = "conflicting" /\ mayRefine -> "controller_refine"
    [] decision = "conflicting" /\ ~mayRefine -> "conflicting_terminal"
    [] OTHER -> "abstention_terminal"

\* mutant: the verdict is not recorded with its plan
EvidenceJudgeForgetful ==
  \E a \in (IF FastVerdicts # {} THEN FastVerdicts ELSE HeuristicVerdicts) :
    /\ Step("evidence_judge", RouteAfterJudge(a.decision))
    /\ assessment' = a
    /\ Emit(<<"evidence_judged">>)
    /\ UNCHANGED <<rejected, planVars, acquisitionVars, metered, outcomeVars>>

EvidenceJudge ==
  \E byLLM \in {FALSE, request.llm /\ FastVerdicts = {}} :
    \E a \in (IF FastVerdicts # {} THEN FastVerdicts
              ELSE IF byLLM THEN LLMVerdicts ELSE HeuristicVerdicts) :
      /\ Step("evidence_judge", RouteAfterJudge(a.decision))
      /\ assessment' = a
      /\ history' = [history EXCEPT ![Len(history)].verdict = a.decision]
      /\ metered' = [metered EXCEPT !["judge"] = @ + (IF byLLM THEN 1 ELSE 0)]
      /\ Emit(<<"evidence_judged">>)
      /\ UNCHANGED <<rejected, plan, acquisitionVars, outcomeVars>>

ControllerRefine ==
  /\ Step("controller_refine", "retrieval_agent")
  /\ Plan(RefinedByRule, RefinedByLLM, <<"controller_plan_refined">>)
  /\ UNCHANGED <<rejected, acquisitionVars, assessment, outcomeVars>>

TerminalReady ==
  /\ Step("terminal_ready", "context_builder")
  /\ status' = "answer"
  /\ UNCHANGED <<rejected, planVars, acquisitionVars, assessment, metered, events, context, answer>>

\* keeps the best ranked items that fit, possibly none
ContextBuilder ==
  /\ toolCalls = 0
  /\ Step("context_builder", "generate_answer")
  /\ \E kept \in SUBSET evidence : context' = [built |-> TRUE, items |-> kept]
  /\ Emit(<<"context_constructed">>)
  /\ UNCHANGED <<rejected, planVars, acquisitionVars, assessment, metered, answer, status>>

\* mutant: the node is retried for ever
ContextBuilderRetries == toolCalls > 0 /\ node = "context_builder" /\ UNCHANGED vars

\* sizing a ToolResult reads output_payload, an attribute it does not have
ContextBuilderFails ==
  /\ toolCalls > 0
  /\ Raise("context_builder", "context")
  /\ UNCHANGED <<rejected, planVars, acquisitionVars, assessment, metered, events, outcomeVars>>

GateOpen == assessment.decision \in {"sufficient", "conflicting"} /\ context.built
Grounded(cited, ids) == cited \intersect ids

\* mutant: terminal_ready's status is left in place
GenerateAnswerKeepsStatus ==
  /\ Step("generate_answer", "persist_turn")
  /\ GateOpen
  /\ BudgetsExceeded \/ ~request.llm
  /\ answer' = [by |-> "graph", citations |-> {}]
  /\ Emit(<<"generation_budget_exceeded">>)
  /\ UNCHANGED <<rejected, planVars, acquisitionVars, assessment, metered, context, status>>

\* no generation: the budgets are spent, or no provider is configured
GenerateAnswerAbstains ==
  /\ Step("generate_answer", "persist_turn")
  /\ GateOpen
  /\ BudgetsExceeded \/ ~request.llm
  /\ answer' = [by |-> "graph", citations |-> {}]
  /\ status' = "abstention"
  /\ Emit(IF BudgetsExceeded THEN <<"generation_budget_exceeded">>
                             ELSE <<"generation_abstained_no_llm">>)
  /\ UNCHANGED <<rejected, planVars, acquisitionVars, assessment, metered, context>>

\* the gate's own exception for a decision or a context it does not accept;
\* or every candidate model failed, and the ProviderError is not caught
GenerateAnswerRaises ==
  /\ Raise("generate_answer", IF GateOpen THEN "provider" ELSE "policy")
  /\ GateOpen => ~BudgetsExceeded /\ request.llm
  /\ UNCHANGED <<rejected, planVars, acquisitionVars, assessment, metered, events, outcomeVars>>

\* AnswerService.generate keeps the citations found in the context, then the
\* output guardrail keeps those found in the evidence, when there is any
GenerateAnswer ==
  /\ Step("generate_answer", "persist_turn")
  /\ GateOpen
  /\ ~BudgetsExceeded
  /\ request.llm
  /\ metered' = [metered EXCEPT !["generator"] = @ + 1]
  /\ \E cited \in SUBSET CitationIds, acceptable \in BOOLEAN :
       LET kept == Grounded(cited, {EvidenceId(item) : item \in context.items})
           verified == IF evidence = {} THEN kept ELSE kept \intersect EvidenceIds
           allowed == acceptable /\ (kept = verified \/ verified # {})
       IN  /\ answer' = IF allowed THEN [by |-> "generator", citations |-> verified]
                                   ELSE [by |-> "graph", citations |-> {}]
           /\ status' = IF allowed THEN "answer" ELSE "abstention"
           /\ Emit(IF allowed THEN <<"answer_generated">> ELSE <<"output_guardrail_rejected">>)
  /\ UNCHANGED <<rejected, planVars, acquisitionVars, assessment, context>>

PersistTurn ==
  /\ Step("persist_turn", "end")
  /\ Emit(<<"run_persisted">>)
  /\ UNCHANGED <<rejected, planVars, acquisitionVars, assessment, metered, outcomeVars>>

\* a terminal node writes its own status, answer and event
Terminal(here, outcome, citations, event) ==
  /\ Step(here, "persist_turn")
  /\ status' = outcome
  /\ answer' = [by |-> "graph", citations |-> citations]
  /\ Emit(<<event>>)
  /\ UNCHANGED <<rejected, planVars, acquisitionVars, assessment, metered, context>>

ClarificationTerminal ==
  Terminal("clarification_terminal", "clarification", {}, "clarification_terminal_reached")

AbstentionTerminal ==
  Terminal("abstention_terminal", "abstention", {}, "abstention_terminal_reached")

\* cites the items of the conflict groups, or the first two items
ConflictingTerminal ==
  \E cited \in SUBSET EvidenceIds :
    /\ evidence # {} => cited # {}
    /\ Terminal("conflicting_terminal", "conflicting", cited, "conflicting_terminal_reached")

\* LangGraph raises GraphRecursionError when the supersteps run out
RecursionLimitReached ==
  /\ node \in Nodes
  /\ steps = RecursionLimit
  /\ node' = "failed"
  /\ failure' = "recursion"
  /\ UNCHANGED <<steps, inputVars, rejected, planVars, acquisitionVars, assessment,
                 metered, events, outcomeVars>>

\* graph.invoke has returned or raised
Finished ==
  /\ node \in {"end", "failed"}
  /\ UNCHANGED vars

Next ==
  \/ InitializeRun
  \/ LoadSessionMemory
  \/ ControllerAbstains
  \/ ControllerDecide
  \/ AcquisitionStage
  \/ RetrievalAgent
  \/ RetrievalFails
  \/ EvidenceJudge
  \/ ControllerRefine
  \/ TerminalReady
  \/ ContextBuilder
  \/ ContextBuilderFails
  \/ GenerateAnswerAbstains
  \/ GenerateAnswerRaises
  \/ GenerateAnswer
  \/ PersistTurn
  \/ ClarificationTerminal
  \/ AbstentionTerminal
  \/ ConflictingTerminal
  \/ RecursionLimitReached
  \/ Finished

Spec == Init /\ [][Next]_vars

\* the worker thread runs node after node and every provider call times out
FairSpec == Spec /\ WF_vars(Next)

-----------------------------------------------------------------------------
(***************************************************************************)
(* Properties.                                                             *)
(***************************************************************************)

TypeOK ==
  /\ node \in Nodes \union {"end", "failed"}
  /\ steps \in 0..RecursionLimit
  /\ failure \in Failures \union {"none"}
  /\ request \in Requests
  /\ rejected \in BOOLEAN
  /\ plan \in Actions \union {"none"}
  /\ history \in Seq([action : Actions, verdict : Verdicts])
  /\ evidence \subseteq Items
  /\ assessment \in [decision : Verdicts, promoted : BOOLEAN]
  /\ iterations \in Nat
  /\ toolCalls \in Nat
  /\ usage = ZeroUsage
  /\ metered \in [Roles -> Nat]
  /\ events \in Seq([sequence : Nat, event_type : EventTypes])
  /\ context \in [built : BOOLEAN, items : SUBSET Items]
  /\ answer \in [by : {"nobody", "graph", "generator"}, citations : SUBSET CitationIds]
  /\ status \in Statuses

\* The iteration and tool-call counters never pass the budgets of the request:
\* the router and the retrieval node check before counting, and a run whose
\* budgets are already spent at the start counts nothing.
CountersWithinBudgets ==
  /\ iterations = 0 \/ iterations <= request.budgets.iterations
  /\ toolCalls = 0 \/ toolCalls <= request.budgets.toolCalls

\* Strict evidence before generation: the generator is called only on a
\* sufficient verdict with a context built, so that the exceptions the gate in
\* generate_answer_node would raise are never raised.
GateHolds ==
  /\ failure # "policy"
  /\ (metered["generator"] > 0 \/ failure = "provider")
       => assessment.decision = "sufficient" /\ context.built

\* A query the input guardrail rejected reaches no LLM, no search and no tool,
\* and ends as an abstention: initialize_run does not stop the run, three later
\* nodes have to honour its flag.
RejectedRunsSpendNothing ==
  rejected => /\ \A r \in Roles : metered[r] = 0
              /\ evidence = {} /\ iterations = 0 /\ toolCalls = 0
              /\ node = "end" => status = "abstention"

\* A plan is followed by another one only if the judge found its evidence
\* insufficient or conflicting, and a judged run ends with the verdict of its
\* last plan: no verdict is lost between evidence_judge and controller_refine.
RefinementsJustified ==
  /\ \A i \in DOMAIN history :
       i < Len(history) => history[i].verdict \in {"insufficient", "conflicting"}
  /\ node = "end" /\ assessment # NoAssessment
       => history[Len(history)].verdict = assessment.decision

\* A run is stored as answered exactly if the generator wrote its answer:
\* terminal_ready sets the status before anything is generated, and every later
\* way out has to take it back.
AnsweredMeansGenerated ==
  /\ node \in {"persist_turn", "end"} => (status = "answer" <=> answer.by = "generator")
  /\ node = "end" => answer.by # "nobody" /\ status # "running"

Counted == \A i \in DOMAIN history : history[i].action \notin {"refine_query", "answer"}
LLMCalls == metered["planner"] + metered["judge"] + metered["generator"]
Allowance == request.budgets.iterations + request.budgets.toolCalls
EnoughSteps ==
  /\ RecursionLimit >= 5
  /\ RecursionLimit >= 3 * Allowance + 4

\* As long as every plan that acquires something is counted, the two budgets that
\* are compared with counters bound the run: it makes at most two metered LLM calls for all
\* but one of the acquisitions they allow (10 for the default budgets), although
\* nothing counts the calls and the metered budgets never take effect; and a
\* recursion limit of three supersteps per counted plan and four more is never
\* reached (22 for the default budgets; LangGraph allows 25).
BudgetsBoundTheRun ==
  Counted => /\ LLMCalls = 0 \/ LLMCalls <= 2 * (Allowance - 1)
             /\ EnoughSteps => failure # "recursion"

\* Every run returns or raises.
RunConcludes == <>(node \in {"end", "failed"})

(***************************************************************************)
(* The run as its caller sees it: RunGraph implements EvidenceGate.        *)
(***************************************************************************)

Gate == INSTANCE EvidenceGate WITH
  verdict <- assessment.decision,
  generated <- metered["generator"] > 0,
  outcome <- IF node = "end" THEN status
             ELSE IF node = "failed" THEN "failed" ELSE "open"

\* Every run is a run of the evidence gate: the generator speaks once, on a
\* sufficient verdict, and the outcome agrees with the last verdict.
ImplementsGate == Gate!Spec

(***************************************************************************)
(* A statement of the repository that the code does not live up to.        *)
(***************************************************************************)

\* evidence_judge.py:277: evidence promoted to sufficient because the budget is
\* reached is there to be synthesised.
PromotedEvidenceIsSynthesised ==
  assessment.promoted => \A i \in DOMAIN events :
                           events[i].event_type # "generation_budget_exceeded"
=============================================================================

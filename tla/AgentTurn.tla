------------------------------ MODULE AgentTurn ------------------------------
(***************************************************************************)
(* One turn of the compiled LangGraph StateGraph of agents/graph.py: the   *)
(* nodes, the routes between them, and the counters that bound a turn.     *)
(*                                                                         *)
(* A step of this module is one superstep: one node runs to completion,    *)
(* its channel updates are applied and the route decides the next node.    *)
(* What the models, the tools and the cache answer is nondeterministic;    *)
(* what the nodes do with the answer is the code's.                        *)
(***************************************************************************)
EXTENDS Integers

CONSTANTS
  MaxResearchSteps,     \* Settings.max_research_steps
  AgentMaxIterations,   \* Settings.agent_max_iterations
  MaxToolCalls,         \* Settings.max_tool_calls
  MaxReplans,           \* Settings.max_replans
  RetryStepAllowance,   \* Settings.research_retry_step_allowance
  GraphRecursionLimits  \* values of Settings.graph_recursion_limit considered

\* The Field bounds of Settings that the budgets rely on.
ASSUME SettingsAssumption ==
  /\ MaxResearchSteps \in Nat \ {0}
  /\ AgentMaxIterations \in Nat \ {0}
  /\ MaxToolCalls \in Nat \ {0}
  /\ MaxReplans \in Nat
  /\ RetryStepAllowance \in Nat \ {0}
  /\ GraphRecursionLimits \subseteq Nat \ {0}

VARIABLES
  graph_recursion_limit,    \* the configured limit, fixed
  node,             \* the node the next superstep runs, "END", or "recursion_error"
  supersteps,       \* nodes run so far in this turn
  run_status, llm_errors, tool_errors, research_failure_reason, answered,
  planner_failed, planner_decision, planner_terminal_review_pending,
  planner_terminal_review_count, planner_analysis_retry_count,
  planner_task_retry_count, planner_model_calls,
  needs_replan, replan_count,
  snapshot,         \* what Researcher._snapshot derives from the receipts
  research_step_count, researcher_contract_retry_count,
  researcher_model_calls, tool_call_count, research_complete, no_match,
  visualizer_contract_retry_count, visualizer_model_calls,
  match_type, write_operation

outcomeVars == <<run_status, llm_errors, tool_errors, research_failure_reason, answered>>
plannerVars ==
  <<planner_failed, planner_decision, planner_terminal_review_pending,
    planner_terminal_review_count, planner_analysis_retry_count,
    planner_task_retry_count, planner_model_calls>>
replanVars == <<needs_replan, replan_count>>
researchVars ==
  <<snapshot, research_step_count, researcher_contract_retry_count,
    researcher_model_calls, tool_call_count, research_complete, no_match>>
visualizerVars == <<visualizer_contract_retry_count, visualizer_model_calls>>
cacheVars == <<match_type, write_operation>>
vars ==
  <<graph_recursion_limit, node, supersteps, outcomeVars, plannerVars, replanVars, researchVars,
    visualizerVars, cacheVars>>

Nodes ==
  {"begin_turn", "raw_cache_probe", "planner_analyze", "planner_tasks",
   "researcher", "result_gate", "canonical_cache_probe", "cache_hydrate",
   "cache_touch", "visualizer", "memory_write", "error_response",
   "merge_session_graph", "compact_session", "END", "recursion_error"}

\* "task": a Planner task is ready; "blocked": none is and the plan is not
\* complete; "nonempty", "empty": every task is complete, with that result.
Snapshots == {"task", "blocked", "nonempty", "empty"}
\* "refused" stands for an unsupported intent and for a realtime query.
Decisions == {"none", "research", "clarify", "refused"}
Statuses == {"running", "success", "partial", "failed"}

\* The Boolean channels.
FlagsOK ==
  /\ llm_errors \in BOOLEAN /\ tool_errors \in BOOLEAN
  /\ research_failure_reason \in BOOLEAN /\ answered \in BOOLEAN
  /\ planner_failed \in BOOLEAN
  /\ planner_terminal_review_pending \in BOOLEAN
  /\ needs_replan \in BOOLEAN
  /\ research_complete \in BOOLEAN /\ no_match \in BOOLEAN

\* The channels with a value out of a few.
ChoicesOK ==
  /\ node \in Nodes
  /\ run_status \in Statuses
  /\ planner_decision \in Decisions
  /\ snapshot \in Snapshots
  /\ match_type \in {"none", "raw_exact", "canonical_exact"}
  /\ write_operation \in {"none", "skip", "add", "touch"}

\* The counters, those of the retries with what each grants.
CountersOK ==
  /\ graph_recursion_limit \in GraphRecursionLimits
  /\ supersteps \in 0..(graph_recursion_limit - 1)
  /\ planner_terminal_review_count \in 0..1
  /\ planner_analysis_retry_count \in 0..2
  /\ planner_task_retry_count \in 0..2
  /\ planner_model_calls \in Nat
  /\ replan_count \in Nat
  /\ research_step_count \in Nat
  /\ researcher_contract_retry_count \in 0..2
  /\ researcher_model_calls \in Nat
  /\ tool_call_count \in 0..MaxToolCalls
  /\ visualizer_contract_retry_count \in 0..1
  /\ visualizer_model_calls \in Nat

TypeOK == FlagsOK /\ ChoicesOK /\ CountersOK

\* The channels as TRANSIENT_DEFAULTS resets them.
Init ==
  /\ graph_recursion_limit \in GraphRecursionLimits
  /\ node = "begin_turn" /\ supersteps = 0
  /\ run_status = "running" /\ llm_errors = FALSE /\ tool_errors = FALSE
  /\ research_failure_reason = FALSE /\ answered = FALSE
  /\ planner_failed = FALSE /\ planner_decision = "none"
  /\ planner_terminal_review_pending = FALSE /\ planner_terminal_review_count = 0
  /\ planner_analysis_retry_count = 0 /\ planner_task_retry_count = 0
  /\ planner_model_calls = 0
  /\ needs_replan = FALSE /\ replan_count = 0
  /\ snapshot = "blocked"
  /\ research_step_count = 0 /\ researcher_contract_retry_count = 0
  /\ researcher_model_calls = 0 /\ tool_call_count = 0
  /\ research_complete = FALSE /\ no_match = FALSE
  /\ visualizer_contract_retry_count = 0 /\ visualizer_model_calls = 0
  /\ match_type = "none" /\ write_operation = "none"

\* The channel cache_hit: _cache_update sets it together with match_type.
cache_hit == match_type # "none"

-----------------------------------------------------------------------------
(* Budgets. *)

HardStepLimit ==
  IF MaxResearchSteps > AgentMaxIterations THEN MaxResearchSteps ELSE AgentMaxIterations

AtMost(a, b) == IF a < b THEN a ELSE b

\* _effective_research_step_limit: replans and one contract correction unlock
\* a reserve below the hard ceiling.
EffectiveStepLimit ==
  AtMost(HardStepLimit,
         MaxResearchSteps
           + AtMost(replan_count, MaxReplans) * RetryStepAllowance
           + AtMost(researcher_contract_retry_count, 1))

\* Researcher.__call__ runs only below both limits.
ResearcherHasBudget ==
  /\ research_step_count < HardStepLimit
  /\ research_step_count < EffectiveStepLimit

\* Native fact tools are offered for a ready task within the tool budget.
FactToolOffered == snapshot = "task" /\ tool_call_count < MaxToolCalls

\* No fact tool and no lifecycle function: the ready task used up its tools.
NothingOffered == snapshot = "task" /\ tool_call_count >= MaxToolCalls

-----------------------------------------------------------------------------
(* Routes: functions of the state a node leaves behind. *)

RouteAfterPlannerAnalysis ==
  IF planner_failed
  THEN IF run_status = "running" /\ planner_analysis_retry_count = 1
       THEN "planner_analyze" ELSE "error_response"
  ELSE IF planner_terminal_review_pending THEN "planner_analyze"
  ELSE IF planner_decision = "none" THEN "planner_tasks"
  ELSE IF planner_decision = "clarify" THEN "visualizer"
  ELSE "error_response"

RouteAfterPlannerTasks ==
  IF planner_failed
  THEN IF run_status = "running" /\ planner_task_retry_count = 1
       THEN "planner_tasks" ELSE "error_response"
  ELSE "researcher"

\* Mutant: the clean-answer test forgets run_status.
RouteAfterResultGate_IgnoresFailure ==
  IF needs_replan THEN "planner_analyze"
  ELSE IF run_status = "running" THEN "researcher"
  ELSE "visualizer"

RouteAfterResultGate ==
  IF needs_replan /\ run_status # "failed" THEN "planner_analyze"
  ELSE IF run_status = "success" /\ research_complete
       THEN IF no_match THEN "visualizer" ELSE "canonical_cache_probe"
  ELSE IF run_status = "running" THEN "researcher"
  ELSE "error_response"

RouteAfterRawProbe == IF cache_hit THEN "cache_hydrate" ELSE "planner_analyze"

RouteAfterCanonicalProbe == IF cache_hit THEN "cache_hydrate" ELSE "visualizer"

RouteAfterVisualizer ==
  IF run_status = "running" /\ visualizer_contract_retry_count = 1 THEN "visualizer"
  ELSE IF run_status = "failed" THEN "error_response"
  ELSE "memory_write"

\* The Pregel loop runs a node only below the recursion limit, in which it
\* counts the entry hop too.
Advance(next) ==
  /\ supersteps + 1 < graph_recursion_limit
  /\ node' = next /\ supersteps' = supersteps + 1
  /\ UNCHANGED graph_recursion_limit

\* GraphRecursionError: the turn dies without an answer.
RecursionError ==
  /\ node \notin {"END", "recursion_error"}
  /\ supersteps + 1 >= graph_recursion_limit
  /\ node' = "recursion_error"
  /\ UNCHANGED <<graph_recursion_limit, supersteps, outcomeVars, plannerVars, replanVars, researchVars,
                 visualizerVars, cacheVars>>

-----------------------------------------------------------------------------
(* Entry and cache nodes. *)

BeginTurn ==
  /\ node = "begin_turn"
  /\ Advance("raw_cache_probe")
  /\ UNCHANGED <<outcomeVars, plannerVars, replanVars, researchVars,
                 visualizerVars, cacheVars>>

RawCacheProbe ==
  /\ node = "raw_cache_probe"
  /\ match_type' \in {"none", "raw_exact"}
  /\ Advance(RouteAfterRawProbe')
  /\ UNCHANGED <<outcomeVars, plannerVars, replanVars, researchVars,
                 visualizerVars, write_operation>>

CanonicalCacheProbe ==
  /\ node = "canonical_cache_probe"
  /\ match_type' \in {"none", "canonical_exact"}
  /\ Advance(RouteAfterCanonicalProbe')
  /\ UNCHANGED <<outcomeVars, plannerVars, replanVars, researchVars,
                 visualizerVars, write_operation>>

\* Serves the cached payload, or fails the run when the lookup carries none.
CacheHydrate ==
  /\ node = "cache_hydrate"
  /\ run_status' = (IF cache_hit THEN "success" ELSE "failed")
  /\ answered' = (answered \/ cache_hit)
  /\ llm_errors' = (llm_errors \/ ~cache_hit)
  /\ Advance("cache_touch")
  /\ UNCHANGED <<tool_errors, research_failure_reason, plannerVars, replanVars,
                 researchVars, visualizerVars, cacheVars>>

\* The touch may fail in Chroma: the turn goes on.
CacheTouch ==
  /\ node = "cache_touch"
  /\ write_operation' \in {"touch", "skip"}
  /\ Advance("merge_session_graph")
  /\ UNCHANGED <<outcomeVars, plannerVars, replanVars, researchVars,
                 visualizerVars, match_type>>

-----------------------------------------------------------------------------
(* Planner.analyze. The first attempt after a replan request starts a new  *)
(* cycle: its retry and review counts start from 0 and it counts a replan. *)

\* Mutant: the replan is granted and never counted.
ReplansSoFar_Uncounted == replan_count

ReviewsSoFar == IF needs_replan THEN 0 ELSE planner_terminal_review_count
AnalysisRetries == IF needs_replan THEN 0 ELSE planner_analysis_retry_count
ReplansSoFar == IF needs_replan THEN replan_count + 1 ELSE replan_count

\* Mutant: the review is asked for again and again.
TerminalReviewRequired_Unbounded(kind) == kind # "research"

\* A terminal analysis is held back once, for the review.
TerminalReviewRequired(kind) == kind # "research" /\ ReviewsSoFar = 0

\* _terminal_failure: the replan limit, or a prompt over its token budget.
AnalysisImpossible ==
  /\ node = "planner_analyze"
  /\ planner_failed' = TRUE /\ planner_decision' = "none"
  /\ planner_analysis_retry_count' = AnalysisRetries
  /\ needs_replan' = FALSE /\ replan_count' = ReplansSoFar
  /\ run_status' = "failed" /\ llm_errors' = TRUE
  /\ Advance(RouteAfterPlannerAnalysis')
  /\ UNCHANGED <<tool_errors, research_failure_reason, answered,
                 planner_terminal_review_pending, planner_terminal_review_count,
                 planner_task_retry_count, planner_model_calls, researchVars,
                 visualizerVars, cacheVars>>

\* _retry_or_fail: one retry per cycle. The review fields are not written.
AnalysisRejected ==
  /\ node = "planner_analyze"
  /\ ReplansSoFar <= MaxReplans
  /\ LET attempts == AnalysisRetries + 1
         willRetry == attempts < 2
     IN /\ planner_analysis_retry_count' = attempts
        /\ run_status' = (IF willRetry THEN "running" ELSE "failed")
        /\ llm_errors' = (llm_errors \/ ~willRetry)
  /\ planner_failed' = TRUE /\ planner_decision' = "none"
  /\ planner_model_calls' = planner_model_calls + 1
  /\ needs_replan' = FALSE /\ replan_count' = ReplansSoFar
  /\ Advance(RouteAfterPlannerAnalysis')
  /\ UNCHANGED <<tool_errors, research_failure_reason, answered,
                 planner_terminal_review_pending, planner_terminal_review_count,
                 planner_task_retry_count, researchVars, visualizerVars, cacheVars>>

AnalysisAccepted ==
  /\ node = "planner_analyze"
  /\ ReplansSoFar <= MaxReplans
  /\ \E kind \in {"research", "clarify", "refused"} :
       LET review == TerminalReviewRequired(kind)
       IN /\ planner_terminal_review_pending' = review
          /\ planner_terminal_review_count' = (IF review THEN ReviewsSoFar + 1 ELSE ReviewsSoFar)
          /\ planner_decision' = (IF kind = "research" \/ review THEN "none" ELSE kind)
  /\ planner_failed' = FALSE
  /\ planner_analysis_retry_count' = AnalysisRetries /\ planner_task_retry_count' = 0
  /\ planner_model_calls' = planner_model_calls + 1
  /\ needs_replan' = FALSE /\ replan_count' = ReplansSoFar
  /\ research_failure_reason' = FALSE /\ research_complete' = FALSE
  /\ run_status' = "running"
  /\ Advance(RouteAfterPlannerAnalysis')
  /\ UNCHANGED <<llm_errors, tool_errors, answered, snapshot, research_step_count,
                 researcher_contract_retry_count, researcher_model_calls,
                 tool_call_count, no_match, visualizerVars, cacheVars>>

PlannerAnalyze == AnalysisImpossible \/ AnalysisRejected \/ AnalysisAccepted

-----------------------------------------------------------------------------
(* Planner.plan_tasks *)

TasksImpossible ==
  /\ node = "planner_tasks"
  /\ planner_failed' = TRUE /\ planner_decision' = "none"
  /\ needs_replan' = FALSE
  /\ run_status' = "failed" /\ llm_errors' = TRUE
  /\ Advance(RouteAfterPlannerTasks')
  /\ UNCHANGED <<tool_errors, research_failure_reason, answered,
                 planner_terminal_review_pending, planner_terminal_review_count,
                 planner_analysis_retry_count, planner_task_retry_count,
                 planner_model_calls, replan_count, researchVars, visualizerVars,
                 cacheVars>>

TasksRejected ==
  /\ node = "planner_tasks"
  /\ LET attempts == planner_task_retry_count + 1
         willRetry == attempts < 2
     IN /\ planner_task_retry_count' = attempts
        /\ run_status' = (IF willRetry THEN "running" ELSE "failed")
        /\ llm_errors' = (llm_errors \/ ~willRetry)
  /\ planner_failed' = TRUE /\ planner_decision' = "none"
  /\ planner_model_calls' = planner_model_calls + 1
  /\ needs_replan' = FALSE
  /\ Advance(RouteAfterPlannerTasks')
  /\ UNCHANGED <<tool_errors, research_failure_reason, answered,
                 planner_terminal_review_pending, planner_terminal_review_count,
                 planner_analysis_retry_count, replan_count, researchVars,
                 visualizerVars, cacheVars>>

\* The receipts of an earlier cycle may already complete or block the new plan.
TasksAccepted ==
  /\ node = "planner_tasks"
  /\ snapshot' \in Snapshots
  /\ planner_decision' = "research" /\ planner_failed' = FALSE
  /\ planner_model_calls' = planner_model_calls + 1
  /\ needs_replan' = FALSE
  /\ research_failure_reason' = FALSE /\ research_complete' = FALSE
  /\ run_status' = "running"
  /\ Advance(RouteAfterPlannerTasks')
  /\ UNCHANGED <<llm_errors, tool_errors, answered, planner_terminal_review_pending,
                 planner_terminal_review_count, planner_analysis_retry_count,
                 planner_task_retry_count, replan_count, research_step_count,
                 researcher_contract_retry_count, researcher_model_calls,
                 tool_call_count, no_match, visualizerVars, cacheVars>>

PlannerTasks == TasksImpossible \/ TasksRejected \/ TasksAccepted

-----------------------------------------------------------------------------
(* Researcher.__call__ with native tool calling. Every node run leads to   *)
(* result_gate.                                                            *)

\* A step that reached the provider.
CountModelStep ==
  /\ research_step_count' = research_step_count + 1
  /\ researcher_model_calls' = researcher_model_calls + 1

\* Mutant: the correction never runs out.
CorrectOrFail_Forever ==
  /\ researcher_contract_retry_count' = researcher_contract_retry_count + 1
  /\ run_status' = "running" /\ UNCHANGED llm_errors
  /\ research_complete' = FALSE /\ needs_replan' = FALSE

\* One correction per turn; the second violation fails the run.
CorrectOrFail ==
  /\ researcher_contract_retry_count' = researcher_contract_retry_count + 1
  /\ run_status' = (IF researcher_contract_retry_count = 0 THEN "running" ELSE "failed")
  /\ llm_errors' = (llm_errors \/ researcher_contract_retry_count # 0)
  /\ research_complete' = FALSE /\ needs_replan' = FALSE

\* The budget refusal of __call__, and the lifecycle action FAIL.
ResearcherGivesUp ==
  /\ node = "researcher"
  /\ ResearcherHasBudget => snapshot = "blocked"
  /\ research_step_count' = research_step_count + (IF ResearcherHasBudget THEN 1 ELSE 0)
  /\ researcher_model_calls' = researcher_model_calls + (IF ResearcherHasBudget THEN 1 ELSE 0)
  /\ run_status' = "failed" /\ research_failure_reason' = TRUE
  /\ research_complete' = FALSE
  /\ Advance("result_gate")
  /\ UNCHANGED <<llm_errors, tool_errors, answered, plannerVars, replanVars, snapshot,
                 researcher_contract_retry_count, tool_call_count, no_match,
                 visualizerVars, cacheVars>>

\* _contract_failure in the preflight: a step without a model call.
NoResearcherAction ==
  /\ node = "researcher" /\ ResearcherHasBudget
  /\ NothingOffered
  /\ research_step_count' = research_step_count + 1
  /\ CorrectOrFail
  /\ Advance("result_gate")
  /\ UNCHANGED <<tool_errors, research_failure_reason, answered, plannerVars,
                 replan_count, snapshot, researcher_model_calls, tool_call_count,
                 no_match, visualizerVars, cacheVars>>

ProviderFailure ==
  /\ node = "researcher" /\ ResearcherHasBudget
  /\ ~NothingOffered
  /\ CountModelStep
  /\ run_status' = "failed" /\ llm_errors' = TRUE /\ research_complete' = FALSE
  /\ Advance("result_gate")
  /\ UNCHANGED <<tool_errors, research_failure_reason, answered, plannerVars,
                 replanVars, snapshot, researcher_contract_retry_count,
                 tool_call_count, no_match, visualizerVars, cacheVars>>

\* A malformed response, a tool call outside the ready contracts, or a
\* completion the receipts do not support.
ResponseRejected ==
  /\ node = "researcher" /\ ResearcherHasBudget
  /\ ~NothingOffered
  /\ CountModelStep
  /\ CorrectOrFail
  /\ Advance("result_gate")
  /\ UNCHANGED <<tool_errors, research_failure_reason, answered, plannerVars,
                 replan_count, snapshot, tool_call_count, no_match, visualizerVars,
                 cacheVars>>

\* A call whose fingerprint was executed before, or the lifecycle action REPLAN.
\* A fingerprint is stored with every counted call.
ReplanRequested ==
  /\ node = "researcher" /\ ResearcherHasBudget
  /\ \/ FactToolOffered /\ tool_call_count > 0
     \/ snapshot = "blocked"
  /\ CountModelStep
  /\ needs_replan' = TRUE /\ research_complete' = FALSE /\ run_status' = "running"
  /\ Advance("result_gate")
  /\ UNCHANGED <<llm_errors, tool_errors, research_failure_reason, answered,
                 plannerVars, replan_count, snapshot, researcher_contract_retry_count,
                 tool_call_count, no_match, visualizerVars, cacheVars>>

\* Timed out, invalid or unsuccessful: the receipt completes nothing.
ToolFailed ==
  /\ node = "researcher" /\ ResearcherHasBudget
  /\ FactToolOffered
  /\ CountModelStep
  /\ tool_call_count' = tool_call_count + 1 /\ tool_errors' = TRUE
  /\ research_complete' = FALSE /\ run_status' = "running"
  /\ Advance("result_gate")
  /\ UNCHANGED <<llm_errors, research_failure_reason, answered, plannerVars,
                 replanVars, snapshot, researcher_contract_retry_count, no_match,
                 visualizerVars, cacheVars>>

ToolSucceeded ==
  /\ node = "researcher" /\ ResearcherHasBudget
  /\ FactToolOffered
  /\ CountModelStep
  /\ tool_call_count' = tool_call_count + 1
  /\ snapshot' \in Snapshots
  /\ research_complete' = FALSE /\ run_status' = "running"
  /\ Advance("result_gate")
  /\ UNCHANGED <<llm_errors, tool_errors, research_failure_reason, answered,
                 plannerVars, replanVars, researcher_contract_retry_count, no_match,
                 visualizerVars, cacheVars>>

\* _finish: FINISH for a result, NO_RESULTS for a verified empty one.
ResearchFinished ==
  /\ node = "researcher" /\ ResearcherHasBudget
  /\ snapshot \in {"nonempty", "empty"}
  /\ CountModelStep
  /\ no_match' = (snapshot = "empty")
  /\ research_complete' = TRUE /\ needs_replan' = FALSE /\ run_status' = "success"
  /\ Advance("result_gate")
  /\ UNCHANGED <<llm_errors, tool_errors, research_failure_reason, answered,
                 plannerVars, replan_count, snapshot, researcher_contract_retry_count,
                 tool_call_count, visualizerVars, cacheVars>>

Researcher ==
  \/ ResearcherGivesUp \/ NoResearcherAction \/ ProviderFailure \/ ResponseRejected
  \/ ReplanRequested \/ ToolFailed \/ ToolSucceeded \/ ResearchFinished

-----------------------------------------------------------------------------
(* ResultGate.__call__ *)

\* Mutants: each limit checked one too late.
GateRefusesReplan_OffByOne ==
  needs_replan /\ (replan_count > MaxReplans \/ research_step_count >= HardStepLimit)
GateRefusesStep_OffByOne ==
  ~needs_replan /\ run_status = "running" /\ research_step_count > EffectiveStepLimit

GateRefusesReplan ==
  needs_replan /\ (replan_count >= MaxReplans \/ research_step_count >= HardStepLimit)

GateRefusesStep ==
  ~needs_replan /\ run_status = "running" /\ research_step_count >= EffectiveStepLimit

\* Mutant: the refusal fails the run without saying why.
GateRefuses_Silent ==
  /\ node = "result_gate"
  /\ GateRefusesReplan \/ GateRefusesStep
  /\ needs_replan' = FALSE
  /\ run_status' = "failed"
  /\ Advance(RouteAfterResultGate')
  /\ UNCHANGED <<llm_errors, tool_errors, research_failure_reason, answered,
                 plannerVars, replan_count, researchVars, visualizerVars, cacheVars>>

GateRefuses ==
  /\ node = "result_gate"
  /\ GateRefusesReplan \/ GateRefusesStep
  /\ needs_replan' = FALSE
  /\ run_status' = "failed" /\ research_failure_reason' = TRUE
  /\ Advance(RouteAfterResultGate')
  /\ UNCHANGED <<llm_errors, tool_errors, answered, plannerVars, replan_count,
                 researchVars, visualizerVars, cacheVars>>

GatePasses ==
  /\ node = "result_gate"
  /\ ~GateRefusesReplan /\ ~GateRefusesStep
  /\ Advance(RouteAfterResultGate)
  /\ UNCHANGED <<outcomeVars, plannerVars, replanVars, researchVars, visualizerVars,
                 cacheVars>>

ResultGate == GateRefuses \/ GatePasses

-----------------------------------------------------------------------------
(* Visualizer, memory and the common tail of every turn. *)

VisualizerAccepted ==
  /\ node = "visualizer"
  /\ visualizer_model_calls' = visualizer_model_calls + 1
  /\ run_status' = (IF planner_decision = "clarify" THEN "partial" ELSE "success")
  /\ answered' = TRUE
  /\ Advance(RouteAfterVisualizer')
  /\ UNCHANGED <<llm_errors, tool_errors, research_failure_reason, plannerVars,
                 replanVars, researchVars, visualizer_contract_retry_count, cacheVars>>

\* _contract_rejection: a contract violation is retried once, a provider
\* failure never.
\* Mutant: a second retry is granted, but the route only follows the first.
VisualizerMayRetry_Twice == visualizer_contract_retry_count < 2

VisualizerMayRetry == visualizer_contract_retry_count < 1

VisualizerRejected ==
  /\ node = "visualizer"
  /\ visualizer_model_calls' = visualizer_model_calls + 1
  /\ \E retryable \in BOOLEAN :
       LET willRetry == retryable /\ VisualizerMayRetry
       IN /\ run_status' = (IF willRetry THEN "running" ELSE "failed")
          /\ llm_errors' = (llm_errors \/ ~willRetry)
          /\ visualizer_contract_retry_count' =
               visualizer_contract_retry_count + (IF willRetry THEN 1 ELSE 0)
  /\ Advance(RouteAfterVisualizer')
  /\ UNCHANGED <<tool_errors, research_failure_reason, answered, plannerVars,
                 replanVars, researchVars, cacheVars>>

Visualizer == VisualizerAccepted \/ VisualizerRejected

\* The control part of decide_memory_write.
WorthRemembering ==
  /\ ~cache_hit /\ ~no_match /\ run_status = "success" /\ research_complete
  /\ tool_call_count >= 1 /\ ~tool_errors /\ ~llm_errors
  /\ planner_decision = "research"

\* The graph, evidence and signature checks, and Chroma, may still skip it.
MemoryWrite ==
  /\ node = "memory_write"
  /\ write_operation' \in {"skip"} \cup (IF WorthRemembering THEN {"add"} ELSE {})
  /\ Advance("merge_session_graph")
  /\ UNCHANGED <<outcomeVars, plannerVars, replanVars, researchVars, visualizerVars,
                 match_type>>

ErrorResponse ==
  /\ node = "error_response"
  /\ run_status' = "failed" /\ answered' = TRUE
  /\ research_failure_reason' = (research_failure_reason \/ planner_decision = "refused")
  /\ Advance("merge_session_graph")
  /\ UNCHANGED <<llm_errors, tool_errors, plannerVars, replanVars, researchVars,
                 visualizerVars, cacheVars>>

MergeSessionGraph ==
  /\ node = "merge_session_graph"
  /\ Advance("compact_session")
  /\ UNCHANGED <<outcomeVars, plannerVars, replanVars, researchVars, visualizerVars,
                 cacheVars>>

CompactSession ==
  /\ node = "compact_session"
  /\ Advance("END")
  /\ UNCHANGED <<outcomeVars, plannerVars, replanVars, researchVars, visualizerVars,
                 cacheVars>>

Next ==
  \/ BeginTurn \/ RawCacheProbe \/ PlannerAnalyze \/ PlannerTasks \/ Researcher
  \/ ResultGate \/ CanonicalCacheProbe \/ CacheHydrate \/ CacheTouch \/ Visualizer
  \/ MemoryWrite \/ ErrorResponse \/ MergeSessionGraph \/ CompactSession
  \/ RecursionError

\* The Pregel loop starts the next node as soon as the last one returned, and
\* every node returns: the model, tool and cache calls carry timeouts.
Spec == Init /\ [][Next]_vars /\ WF_vars(Next)

-----------------------------------------------------------------------------
(* Properties *)

\* ApplicationService._safe_error_code: the first stage with a recorded fault.
SafeErrorCode ==
  CASE planner_failed -> "PLANNING_FAILURE"
    [] ~planner_failed /\ llm_errors -> "MODEL_FAILURE"
    [] ~planner_failed /\ ~llm_errors /\ research_failure_reason -> "RESEARCH_FAILURE"
    [] ~planner_failed /\ ~llm_errors /\ ~research_failure_reason /\ tool_errors -> "TOOL_FAILURE"
    [] OTHER -> "AGENT_FAILURE"

\* The Researcher is never entered without budget: the gate, which reads the
\* counters before the replan is counted, always refuses first. Otherwise the
\* turn would end on Researcher's own refusal in the middle of a live plan.
ResearcherEnteredWithBudget == node = "researcher" => ResearcherHasBudget

\* A replan that reaches the Planner is always within max_replans, so a cycle
\* that was granted is never thrown away by Planner's own limit check.
ReplanAlwaysAdmitted ==
  node = "planner_analyze" /\ needs_replan => replan_count < MaxReplans

\* The longest turn: two entry nodes, five planner attempts per cycle (a
\* rejection, a candidate, its review; a rejected and an accepted task plan),
\* two nodes per Researcher step, and at most six nodes after the last gate.
SuperstepBound == 8 + 5 * (MaxReplans + 1) + 2 * HardStepLimit

SuperstepsBounded == supersteps <= SuperstepBound

\* A turn never dies of GraphRecursionError under a limit above the bound:
\* whatever the models answer, the retry and replan limits end it before
\* graph_recursion_limit does.
RecursionLimitNeverHit ==
  SuperstepBound < graph_recursion_limit => node # "recursion_error"

\* What one request may cost in model calls, whatever the models answer.
ModelCallsBounded ==
  /\ planner_model_calls <= 5 * (MaxReplans + 1)
  /\ researcher_model_calls <= HardStepLimit
  /\ visualizer_model_calls <= 2

\* Every turn ends with an answer and a decided status, whatever retry was
\* pending: _build_response rejects a turn without an answer.
EndsAnswered == node = "END" => answered /\ run_status # "running"

\* A failed turn names the stage that failed: the fallback code is never used.
FailedTurnIsExplained ==
  node = "END" /\ run_status = "failed" => SafeErrorCode # "AGENT_FAILURE"

\* A failure decided by a node is final: no later node of the turn turns it
\* into a success, and so none of it is remembered.
FailureIsSticky ==
  [][run_status = "failed" => run_status' = "failed" /\ write_operation' # "add"]_vars

\* Whatever the models, the tools and the cache answer, the turn ends; only a
\* limit below the bound can end it without an answer.
TurnTerminates ==
  <>(\/ node = "END"
     \/ node = "recursion_error" /\ graph_recursion_limit <= SuperstepBound)

\* A decision not to research is taken only by the review of a held-back
\* candidate, in every cycle.
TerminalDecisionReviewed ==
  [][planner_decision' \in {"clarify", "refused"} /\ planner_decision = "none"
       => planner_terminal_review_pending]_vars
=============================================================================

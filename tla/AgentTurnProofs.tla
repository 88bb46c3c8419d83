--------------------------- MODULE AgentTurnProofs ---------------------------
(***************************************************************************)
(* Proofs about one turn of the graph, for every value of the settings.    *)
(*                                                                         *)
(* None of the bounds is inductive alone: how often a node may still run   *)
(* depends on the retry counters, on whether the Planner has yet counted   *)
(* the replan it was asked for, and on the node the turn is in. TurnInv    *)
(* says, node by node, what is left of each allowance. How a turn ends     *)
(* follows from OutcomeInv, in the second half.                            *)
(***************************************************************************)
EXTENDS AgentTurn, TLAPS

\* The nodes of the research loop, where a turn can still come back to.
PlannerNodes == {"planner_analyze", "planner_tasks"}

\* What each retry counter allows where it is read.
RetryInv ==
  /\ node \in {"begin_turn", "raw_cache_probe"} =>
       /\ replan_count = 0 /\ research_step_count = 0
       /\ planner_analysis_retry_count = 0 /\ planner_terminal_review_count = 0
       /\ researcher_contract_retry_count = 0
  /\ needs_replan => node \in {"planner_analyze", "result_gate", "recursion_error"}
  /\ node = "result_gate" /\ needs_replan => run_status = "running"
  /\ node = "planner_analyze" /\ ~needs_replan => planner_analysis_retry_count <= 1
  /\ node = "planner_tasks" =>
       planner_analysis_retry_count <= 1 /\ planner_task_retry_count <= 1
  /\ node \in PlannerNodes \cup {"researcher"} => researcher_contract_retry_count <= 1
  /\ node = "result_gate" /\ researcher_contract_retry_count > 1 => run_status = "failed"

\* The Researcher's steps against its effective limit.
StepInv ==
  /\ replan_count <= MaxReplans
  /\ research_step_count <= EffectiveStepLimit
  /\ node \in PlannerNodes \cup {"researcher"} /\ ~needs_replan
       => research_step_count < EffectiveStepLimit
  /\ node = "planner_analyze" /\ needs_replan
       => replan_count < MaxReplans /\ research_step_count < HardStepLimit

\* The five planner attempts of every cycle so far and two nodes per step.
Spent == 2 + 5 * replan_count + 2 * research_step_count

\* Nodes run when a node is entered.
LengthInv ==
  /\ node = "begin_turn" => supersteps = 0
  /\ node = "raw_cache_probe" => supersteps <= 1
  /\ node = "planner_analyze" /\ ~needs_replan =>
       supersteps <= Spent + planner_analysis_retry_count + planner_terminal_review_count
  /\ node = "planner_analyze" /\ needs_replan => supersteps <= Spent + 5
  /\ node = "planner_tasks" =>
       supersteps <= Spent + planner_analysis_retry_count
                       + planner_terminal_review_count + 1 + planner_task_retry_count
  /\ node = "researcher" => supersteps <= Spent + 5
  /\ node = "result_gate" => supersteps <= Spent + 4
  /\ node = "canonical_cache_probe" => supersteps <= Spent + 5
  /\ node = "visualizer" => supersteps <= Spent + 6 + visualizer_contract_retry_count
  /\ node \in {"memory_write", "error_response", "cache_hydrate", "cache_touch"} =>
       supersteps <= Spent + 8
  /\ node = "cache_hydrate" => supersteps <= Spent + 7
  /\ node = "merge_session_graph" => supersteps <= Spent + 9
  /\ node = "compact_session" => supersteps <= Spent + 10
  /\ node \in {"END", "recursion_error"} => supersteps <= Spent + 11

\* Model calls when a node is entered.
CallInv ==
  /\ planner_model_calls <= 5 * replan_count + 5
  /\ node \in {"begin_turn", "raw_cache_probe"} => planner_model_calls = 0
  /\ node = "planner_analyze" /\ ~needs_replan =>
       planner_model_calls <= 5 * replan_count + planner_analysis_retry_count
                                + planner_terminal_review_count
  /\ node = "planner_tasks" =>
       planner_model_calls <= 5 * replan_count + planner_analysis_retry_count
                                + planner_terminal_review_count + 1
                                + planner_task_retry_count
  /\ researcher_model_calls <= research_step_count
  /\ visualizer_model_calls <= 2
  /\ node \in {"begin_turn", "raw_cache_probe", "planner_analyze", "planner_tasks",
               "researcher", "result_gate", "canonical_cache_probe"} =>
       visualizer_model_calls = 0
  /\ node = "visualizer" => visualizer_model_calls <= visualizer_contract_retry_count

TurnInv == TypeOK /\ RetryInv /\ StepInv /\ LengthInv /\ CallInv

-----------------------------------------------------------------------------
(* The effective step limit as a function of the two counters it reads. *)

Limit(replans, corrections) ==
  AtMost(HardStepLimit,
         MaxResearchSteps
           + AtMost(replans, MaxReplans) * RetryStepAllowance
           + AtMost(corrections, 1))

\* _effective_research_step_limit returns a positive number of steps that never
\* exceeds the hard limit, whatever the counters are.
LEMMA LimitIsPositive ==
  ASSUME NEW r \in Nat, NEW c \in Nat
  PROVE  /\ Limit(r, c) \in Nat
         /\ 1 <= Limit(r, c) /\ Limit(r, c) <= HardStepLimit
<1>1. AtMost(r, MaxReplans) \in Nat /\ AtMost(c, 1) \in Nat
  BY SettingsAssumption DEF AtMost
<1>2. AtMost(r, MaxReplans) * RetryStepAllowance \in Nat
  BY <1>1, SettingsAssumption
<1>3. HardStepLimit \in Nat /\ 1 <= HardStepLimit
  BY SettingsAssumption DEF HardStepLimit
<1> QED
  BY <1>1, <1>2, <1>3, SettingsAssumption DEF Limit, AtMost

\* A contract correction never lowers the limit.
LEMMA CorrectionKeepsLimit ==
  ASSUME NEW r \in Nat, NEW c \in Nat
  PROVE  Limit(r, c) <= Limit(r, c + 1)
<1>1. AtMost(r, MaxReplans) \in Nat
  BY SettingsAssumption DEF AtMost
<1>2. AtMost(r, MaxReplans) * RetryStepAllowance \in Nat
  BY <1>1, SettingsAssumption
<1>3. AtMost(c, 1) <= AtMost(c + 1, 1) /\ AtMost(c, 1) \in Nat /\ AtMost(c + 1, 1) \in Nat
  BY DEF AtMost
<1>4. HardStepLimit \in Nat
  BY SettingsAssumption DEF HardStepLimit
<1> QED
  BY <1>2, <1>3, <1>4, SettingsAssumption DEF Limit, AtMost

\* A replan within max_replans leaves at least one more step, unless the hard
\* limit is used up.
LEMMA ReplanGrantsStep ==
  ASSUME NEW r \in Nat, NEW c \in Nat, NEW n \in Nat,
         r < MaxReplans, n <= Limit(r, c), n < HardStepLimit
  PROVE  n < Limit(r + 1, c)
<1>1. AtMost(r, MaxReplans) = r /\ AtMost(r + 1, MaxReplans) = r + 1
  BY SettingsAssumption DEF AtMost
<1>2. (r + 1) * RetryStepAllowance = r * RetryStepAllowance + RetryStepAllowance
  BY SettingsAssumption
<1>3. r * RetryStepAllowance \in Nat /\ AtMost(c, 1) \in Nat /\ HardStepLimit \in Nat
  BY SettingsAssumption DEF AtMost, HardStepLimit
<1> DEFINE a == MaxResearchSteps + r * RetryStepAllowance + AtMost(c, 1)
<1>4. a \in Nat /\ Limit(r, c) = AtMost(HardStepLimit, a)
  BY <1>1, <1>3, SettingsAssumption DEF Limit
<1>5. Limit(r + 1, c) = AtMost(HardStepLimit, a + RetryStepAllowance)
  BY <1>1, <1>2, <1>3, SettingsAssumption DEF Limit
<1> HIDE DEF a
<1> QED
  BY <1>3, <1>4, <1>5, SettingsAssumption DEF AtMost

\* The limit in force lies between one step and the hard limit.
LEMMA EffectiveLimitFacts ==
  ASSUME TypeOK
  PROVE  /\ HardStepLimit \in Nat /\ EffectiveStepLimit \in Nat
         /\ 1 <= EffectiveStepLimit /\ EffectiveStepLimit <= HardStepLimit
<1>1. replan_count \in Nat /\ researcher_contract_retry_count \in Nat
  BY DEF TypeOK, CountersOK
<1>2. EffectiveStepLimit = Limit(replan_count, researcher_contract_retry_count)
  BY DEF EffectiveStepLimit, Limit
<1>3. HardStepLimit \in Nat
  BY SettingsAssumption DEF HardStepLimit
<1> QED
  BY <1>1, <1>2, <1>3, LimitIsPositive

-----------------------------------------------------------------------------
(* TurnInv is inductive. *)

LEMMA TurnInvInit == Init => TurnInv
<1> SUFFICES ASSUME Init PROVE TurnInv
  OBVIOUS
<1>1. FlagsOK
  BY Zenon DEF Init, FlagsOK
<1>5. ChoicesOK
  BY DEF Init, ChoicesOK, Nodes, Decisions, Statuses, Snapshots
<1>6. CountersOK
  BY SettingsAssumption DEF Init, CountersOK
<1>2. RetryInv /\ LengthInv /\ CallInv
  BY DEF Init, RetryInv, LengthInv, CallInv, Spent, PlannerNodes
<1>3. EffectiveStepLimit = Limit(0, 0)
  BY DEF Init, EffectiveStepLimit, Limit
<1>4. StepInv
  BY <1>3, LimitIsPositive, SettingsAssumption DEF Init, StepInv, PlannerNodes
<1> QED
  BY <1>1, <1>2, <1>4, <1>5, <1>6 DEF TurnInv, TypeOK

\* Every step keeps TurnInv: the counters of the retries, of the replans and of
\* the Researcher's steps decide how many nodes may still follow.
LEMMA TurnInvStep == TurnInv /\ [Next]_vars => TurnInv'
<1> SUFFICES ASSUME TurnInv, [Next]_vars PROVE TurnInv'
  OBVIOUS
<1> USE SettingsAssumption
<1> USE DEF TurnInv, TypeOK, Advance, outcomeVars, plannerVars, replanVars, researchVars,
            visualizerVars, cacheVars
<1>a. /\ EffectiveStepLimit = Limit(replan_count, researcher_contract_retry_count)
      /\ EffectiveStepLimit' = Limit(replan_count', researcher_contract_retry_count')
  BY DEF EffectiveStepLimit, Limit
<1>b. /\ HardStepLimit \in Nat /\ EffectiveStepLimit \in Nat
      /\ 1 <= EffectiveStepLimit /\ EffectiveStepLimit <= HardStepLimit
  BY EffectiveLimitFacts
<1>c. EffectiveStepLimit
        <= Limit(replan_count, researcher_contract_retry_count + 1)
  BY <1>a, CorrectionKeepsLimit DEF TypeOK, CountersOK
<1>d. node = "planner_analyze" /\ needs_replan
        => research_step_count < Limit(replan_count + 1, researcher_contract_retry_count)
  BY <1>a, ReplanGrantsStep DEF TypeOK, CountersOK, StepInv
<1>e. node = "researcher" => ResearcherHasBudget
  BY <1>b DEF TypeOK, CountersOK, RetryInv, StepInv, PlannerNodes, ResearcherHasBudget
<1>1. CASE BeginTurn
  <2>1. FlagsOK'
    BY <1>1, Zenon DEF FlagsOK, BeginTurn
  <2>2. ChoicesOK' /\ CountersOK' /\ RetryInv'
    BY <1>1 DEF ChoicesOK, CountersOK, RetryInv, Nodes, Statuses, PlannerNodes,
       BeginTurn
  <2>3. StepInv'
    BY <1>1, <1>a, <1>b DEF ChoicesOK, CountersOK, RetryInv, StepInv,
       PlannerNodes, BeginTurn
  <2>4. LengthInv' /\ CallInv'
    BY <1>1 DEF ChoicesOK, CountersOK, RetryInv, LengthInv, CallInv, Spent,
       Nodes, BeginTurn
  <2> QED
    BY <2>1, <2>2, <2>3, <2>4
<1>2. CASE RawCacheProbe
  <2>1. FlagsOK'
    BY <1>2, Zenon DEF FlagsOK, RawCacheProbe, RouteAfterRawProbe, cache_hit
  <2>2. ChoicesOK' /\ CountersOK' /\ RetryInv'
    BY <1>2 DEF ChoicesOK, CountersOK, RetryInv, Nodes, Statuses, PlannerNodes,
       RawCacheProbe, RouteAfterRawProbe, cache_hit
  <2>3. StepInv'
    BY <1>2, <1>a, <1>b DEF ChoicesOK, CountersOK, RetryInv, StepInv,
       PlannerNodes, RawCacheProbe, RouteAfterRawProbe, cache_hit
  <2>4. LengthInv' /\ CallInv'
    BY <1>2 DEF ChoicesOK, CountersOK, RetryInv, LengthInv, CallInv, Spent,
       Nodes, RawCacheProbe, RouteAfterRawProbe, cache_hit
  <2> QED
    BY <2>1, <2>2, <2>3, <2>4
<1>3. CASE AnalysisImpossible
  <2>1. FlagsOK'
    BY <1>3, Zenon DEF FlagsOK, AnalysisImpossible, AnalysisRetries,
       ReplansSoFar, RouteAfterPlannerAnalysis
  <2>2. ChoicesOK' /\ CountersOK'
    BY <1>3 DEF ChoicesOK, CountersOK, RetryInv, Nodes, Decisions, Statuses,
       Snapshots, AnalysisImpossible, AnalysisRetries, ReplansSoFar,
       RouteAfterPlannerAnalysis
  <2>3. RetryInv'
    BY <1>3 DEF FlagsOK, ChoicesOK, CountersOK, RetryInv, PlannerNodes,
       AnalysisImpossible, AnalysisRetries, ReplansSoFar, RouteAfterPlannerAnalysis
  <2>4. StepInv'
    BY <1>3, <1>a, <1>b, <1>d DEF ChoicesOK, CountersOK, RetryInv, StepInv,
       PlannerNodes, AnalysisImpossible, AnalysisRetries, ReplansSoFar,
       RouteAfterPlannerAnalysis
  <2>5. LengthInv' /\ CallInv'
    BY <1>3 DEF FlagsOK, ChoicesOK, CountersOK, RetryInv, LengthInv, CallInv,
       Spent, AnalysisImpossible, AnalysisRetries, ReplansSoFar,
       RouteAfterPlannerAnalysis
  <2> QED
    BY <2>1, <2>2, <2>3, <2>4, <2>5
<1>4. CASE AnalysisRejected
  <2>1. FlagsOK'
    BY <1>4, Zenon DEF FlagsOK, AnalysisRejected, AnalysisRetries, ReplansSoFar,
       RouteAfterPlannerAnalysis
  <2>2. ChoicesOK' /\ CountersOK'
    BY <1>4 DEF ChoicesOK, CountersOK, RetryInv, Nodes, Decisions, Statuses,
       Snapshots, AnalysisRejected, AnalysisRetries, ReplansSoFar,
       RouteAfterPlannerAnalysis
  <2>3. RetryInv'
    BY <1>4 DEF FlagsOK, ChoicesOK, CountersOK, RetryInv, PlannerNodes,
       AnalysisRejected, AnalysisRetries, ReplansSoFar, RouteAfterPlannerAnalysis
  <2>4. StepInv'
    BY <1>4, <1>a, <1>b, <1>d DEF ChoicesOK, CountersOK, RetryInv, StepInv,
       PlannerNodes, AnalysisRejected, AnalysisRetries, ReplansSoFar,
       RouteAfterPlannerAnalysis
  <2>5. LengthInv' /\ CallInv'
    BY <1>4 DEF FlagsOK, ChoicesOK, CountersOK, RetryInv, LengthInv, CallInv,
       Spent, AnalysisRejected, AnalysisRetries, ReplansSoFar,
       RouteAfterPlannerAnalysis
  <2> QED
    BY <2>1, <2>2, <2>3, <2>4, <2>5
<1>5. CASE AnalysisAccepted
  <2>1. FlagsOK'
    BY <1>5, Zenon DEF FlagsOK, AnalysisAccepted, AnalysisRetries, ReplansSoFar,
       ReviewsSoFar, TerminalReviewRequired, RouteAfterPlannerAnalysis
  <2>2. ChoicesOK' /\ CountersOK'
    BY <1>5 DEF ChoicesOK, CountersOK, RetryInv, Nodes, Decisions, Statuses,
       Snapshots, AnalysisAccepted, AnalysisRetries, ReplansSoFar, ReviewsSoFar,
       TerminalReviewRequired, RouteAfterPlannerAnalysis
  <2>3. RetryInv'
    BY <1>5 DEF FlagsOK, ChoicesOK, CountersOK, RetryInv, PlannerNodes,
       AnalysisAccepted, AnalysisRetries, ReplansSoFar, ReviewsSoFar,
       TerminalReviewRequired, RouteAfterPlannerAnalysis
  <2>4. StepInv'
    BY <1>5, <1>a, <1>b, <1>d DEF ChoicesOK, CountersOK, RetryInv, StepInv,
       PlannerNodes, AnalysisAccepted, AnalysisRetries, ReplansSoFar, ReviewsSoFar,
       TerminalReviewRequired, RouteAfterPlannerAnalysis
  <2>5. /\ node = "planner_analyze" /\ needs_replan' = FALSE
        /\ \/ /\ ReviewsSoFar = 0 /\ planner_terminal_review_count' = 1
              /\ node' = "planner_analyze"
           \/ /\ planner_terminal_review_count' = ReviewsSoFar
              /\ node' \in {"planner_tasks", "visualizer", "error_response"}
    <3>1. PICK kind \in {"research", "clarify", "refused"} :
            /\ planner_terminal_review_pending' = TerminalReviewRequired(kind)
            /\ planner_terminal_review_count' =
                 (IF TerminalReviewRequired(kind) THEN ReviewsSoFar + 1 ELSE ReviewsSoFar)
            /\ planner_decision' =
                 (IF kind = "research" \/ TerminalReviewRequired(kind) THEN "none" ELSE kind)
      BY <1>5 DEF AnalysisAccepted
    <3>2. /\ node = "planner_analyze" /\ needs_replan' = FALSE /\ planner_failed' = FALSE
          /\ node' = RouteAfterPlannerAnalysis'
      BY <1>5 DEF AnalysisAccepted
    <3>3. CASE TerminalReviewRequired(kind)
      <4>1. planner_terminal_review_pending' = TRUE
        BY <3>1, <3>3
      <4> QED
        BY <3>1, <3>2, <3>3, <4>1 DEF TerminalReviewRequired, RouteAfterPlannerAnalysis
    <3>4. CASE ~TerminalReviewRequired(kind)
      <4>1. planner_terminal_review_pending' = FALSE
        BY <3>1, <3>4
      <4> QED
        BY <3>1, <3>2, <3>4, <4>1 DEF RouteAfterPlannerAnalysis
    <3> QED
      BY <3>3, <3>4
  <2>6. LengthInv' /\ CallInv'
    BY <1>5, <2>5 DEF ChoicesOK, CountersOK, RetryInv, LengthInv, CallInv, Spent,
       AnalysisAccepted, AnalysisRetries, ReplansSoFar, ReviewsSoFar
  <2> QED
    BY <2>1, <2>2, <2>3, <2>4, <2>6
<1>6. CASE TasksImpossible
  <2>1. FlagsOK'
    BY <1>6, Zenon DEF FlagsOK, TasksImpossible, RouteAfterPlannerTasks
  <2>2. ChoicesOK' /\ CountersOK'
    BY <1>6 DEF ChoicesOK, CountersOK, RetryInv, Nodes, Decisions, Statuses,
       Snapshots, TasksImpossible, RouteAfterPlannerTasks
  <2>3. RetryInv'
    BY <1>6 DEF FlagsOK, ChoicesOK, CountersOK, RetryInv, PlannerNodes,
       TasksImpossible, RouteAfterPlannerTasks
  <2>4. StepInv'
    BY <1>6, <1>a, <1>b DEF ChoicesOK, CountersOK, RetryInv, StepInv,
       PlannerNodes, TasksImpossible, RouteAfterPlannerTasks
  <2>5. LengthInv' /\ CallInv'
    BY <1>6 DEF FlagsOK, ChoicesOK, CountersOK, RetryInv, LengthInv, CallInv,
       Spent, TasksImpossible, RouteAfterPlannerTasks
  <2> QED
    BY <2>1, <2>2, <2>3, <2>4, <2>5
<1>7. CASE TasksRejected
  <2>1. FlagsOK'
    BY <1>7, Zenon DEF FlagsOK, TasksRejected, RouteAfterPlannerTasks
  <2>2. ChoicesOK' /\ CountersOK'
    BY <1>7 DEF ChoicesOK, CountersOK, RetryInv, Nodes, Decisions, Statuses,
       Snapshots, TasksRejected, RouteAfterPlannerTasks
  <2>3. RetryInv'
    BY <1>7 DEF FlagsOK, ChoicesOK, CountersOK, RetryInv, PlannerNodes,
       TasksRejected, RouteAfterPlannerTasks
  <2>4. StepInv'
    BY <1>7, <1>a, <1>b DEF ChoicesOK, CountersOK, RetryInv, StepInv,
       PlannerNodes, TasksRejected, RouteAfterPlannerTasks
  <2>5. LengthInv' /\ CallInv'
    BY <1>7 DEF FlagsOK, ChoicesOK, CountersOK, RetryInv, LengthInv, CallInv,
       Spent, TasksRejected, RouteAfterPlannerTasks
  <2> QED
    BY <2>1, <2>2, <2>3, <2>4, <2>5
<1>8. CASE TasksAccepted
  <2>1. FlagsOK'
    BY <1>8, Zenon DEF FlagsOK, TasksAccepted, RouteAfterPlannerTasks
  <2>2. ChoicesOK' /\ CountersOK'
    BY <1>8 DEF ChoicesOK, CountersOK, RetryInv, Nodes, Decisions, Statuses,
       Snapshots, TasksAccepted, RouteAfterPlannerTasks
  <2>3. RetryInv'
    BY <1>8 DEF FlagsOK, ChoicesOK, CountersOK, RetryInv, PlannerNodes,
       TasksAccepted, RouteAfterPlannerTasks
  <2>4. StepInv'
    BY <1>8, <1>a, <1>b DEF ChoicesOK, CountersOK, RetryInv, StepInv,
       PlannerNodes, TasksAccepted, RouteAfterPlannerTasks
  <2>5. LengthInv' /\ CallInv'
    BY <1>8 DEF FlagsOK, ChoicesOK, CountersOK, RetryInv, LengthInv, CallInv,
       Spent, TasksAccepted, RouteAfterPlannerTasks
  <2> QED
    BY <2>1, <2>2, <2>3, <2>4, <2>5
<1>9. CASE ResearcherGivesUp
  <2>1. FlagsOK'
    BY <1>9, Zenon DEF FlagsOK, ResearcherGivesUp
  <2>2. ChoicesOK' /\ CountersOK'
    BY <1>9 DEF ChoicesOK, CountersOK, RetryInv, Nodes, Decisions, Statuses,
       Snapshots, ResearcherGivesUp
  <2>3. RetryInv'
    BY <1>9 DEF FlagsOK, ChoicesOK, CountersOK, RetryInv, PlannerNodes,
       ResearcherGivesUp
  <2>4. StepInv'
    BY <1>9, <1>a, <1>b, <1>e DEF ChoicesOK, CountersOK, RetryInv, StepInv,
       PlannerNodes, ResearcherGivesUp, ResearcherHasBudget
  <2>5. LengthInv' /\ CallInv'
    BY <1>9, <1>e DEF FlagsOK, ChoicesOK, CountersOK, RetryInv, LengthInv,
       CallInv, Spent, ResearcherGivesUp
  <2> QED
    BY <2>1, <2>2, <2>3, <2>4, <2>5
<1>10. CASE NoResearcherAction
  <2>1. FlagsOK'
    BY <1>10, Zenon DEF FlagsOK, NoResearcherAction, CorrectOrFail
  <2>2. ChoicesOK' /\ CountersOK'
    BY <1>10 DEF ChoicesOK, CountersOK, RetryInv, Nodes, Decisions, Statuses,
       Snapshots, NoResearcherAction, CorrectOrFail
  <2>3. RetryInv'
    BY <1>10 DEF FlagsOK, ChoicesOK, CountersOK, RetryInv, PlannerNodes,
       NoResearcherAction, CorrectOrFail
  <2>4. StepInv'
    BY <1>10, <1>a, <1>b, <1>c DEF ChoicesOK, CountersOK, RetryInv, StepInv,
       PlannerNodes, NoResearcherAction, CorrectOrFail, ResearcherHasBudget
  <2>5. LengthInv' /\ CallInv'
    BY <1>10 DEF FlagsOK, ChoicesOK, CountersOK, RetryInv, LengthInv, CallInv,
       Spent, NoResearcherAction, CorrectOrFail
  <2> QED
    BY <2>1, <2>2, <2>3, <2>4, <2>5
<1>11. CASE ProviderFailure
  <2>1. FlagsOK'
    BY <1>11, Zenon DEF FlagsOK, ProviderFailure, CountModelStep
  <2>2. ChoicesOK' /\ CountersOK'
    BY <1>11 DEF ChoicesOK, CountersOK, RetryInv, Nodes, Decisions, Statuses,
       Snapshots, ProviderFailure, CountModelStep
  <2>3. RetryInv'
    BY <1>11 DEF FlagsOK, ChoicesOK, CountersOK, RetryInv, PlannerNodes,
       ProviderFailure, CountModelStep
  <2>4. StepInv'
    BY <1>11, <1>a, <1>b DEF ChoicesOK, CountersOK, RetryInv, StepInv,
       PlannerNodes, ProviderFailure, CountModelStep, ResearcherHasBudget
  <2>5. LengthInv' /\ CallInv'
    BY <1>11 DEF FlagsOK, ChoicesOK, CountersOK, RetryInv, LengthInv, CallInv,
       Spent, ProviderFailure, CountModelStep
  <2> QED
    BY <2>1, <2>2, <2>3, <2>4, <2>5
<1>12. CASE ResponseRejected
  <2>1. FlagsOK'
    BY <1>12, Zenon DEF FlagsOK, ResponseRejected, CountModelStep, CorrectOrFail
  <2>2. ChoicesOK' /\ CountersOK'
    BY <1>12 DEF ChoicesOK, CountersOK, RetryInv, Nodes, Decisions, Statuses,
       Snapshots, ResponseRejected, CountModelStep, CorrectOrFail
  <2>3. RetryInv'
    BY <1>12 DEF FlagsOK, ChoicesOK, CountersOK, RetryInv, PlannerNodes,
       ResponseRejected, CountModelStep, CorrectOrFail
  <2>4. StepInv'
    BY <1>12, <1>a, <1>b, <1>c DEF ChoicesOK, CountersOK, RetryInv, StepInv,
       PlannerNodes, ResponseRejected, CountModelStep, CorrectOrFail,
       ResearcherHasBudget
  <2>5. LengthInv' /\ CallInv'
    BY <1>12 DEF FlagsOK, ChoicesOK, CountersOK, RetryInv, LengthInv, CallInv,
       Spent, ResponseRejected, CountModelStep, CorrectOrFail
  <2> QED
    BY <2>1, <2>2, <2>3, <2>4, <2>5
<1>13. CASE ReplanRequested
  <2>1. FlagsOK'
    BY <1>13, Zenon DEF FlagsOK, ReplanRequested, CountModelStep
  <2>2. ChoicesOK' /\ CountersOK'
    BY <1>13 DEF ChoicesOK, CountersOK, RetryInv, Nodes, Decisions, Statuses,
       Snapshots, ReplanRequested, CountModelStep
  <2>3. RetryInv'
    BY <1>13 DEF FlagsOK, ChoicesOK, CountersOK, RetryInv, PlannerNodes,
       ReplanRequested, CountModelStep
  <2>4. StepInv'
    BY <1>13, <1>a, <1>b DEF ChoicesOK, CountersOK, RetryInv, StepInv,
       PlannerNodes, ReplanRequested, CountModelStep, ResearcherHasBudget
  <2>5. LengthInv' /\ CallInv'
    BY <1>13 DEF FlagsOK, ChoicesOK, CountersOK, RetryInv, LengthInv, CallInv,
       Spent, ReplanRequested, CountModelStep
  <2> QED
    BY <2>1, <2>2, <2>3, <2>4, <2>5
<1>14. CASE ToolFailed
  <2>1. FlagsOK'
    BY <1>14, Zenon DEF FlagsOK, ToolFailed, CountModelStep, FactToolOffered
  <2>2. ChoicesOK' /\ CountersOK'
    BY <1>14 DEF ChoicesOK, CountersOK, RetryInv, Nodes, Decisions, Statuses,
       Snapshots, ToolFailed, CountModelStep, FactToolOffered
  <2>3. RetryInv'
    BY <1>14 DEF FlagsOK, ChoicesOK, CountersOK, RetryInv, PlannerNodes,
       ToolFailed, CountModelStep, FactToolOffered
  <2>4. StepInv'
    BY <1>14, <1>a, <1>b DEF ChoicesOK, CountersOK, RetryInv, StepInv,
       PlannerNodes, ToolFailed, CountModelStep, FactToolOffered,
       ResearcherHasBudget
  <2>5. LengthInv' /\ CallInv'
    BY <1>14 DEF FlagsOK, ChoicesOK, CountersOK, RetryInv, LengthInv, CallInv,
       Spent, ToolFailed, CountModelStep, FactToolOffered
  <2> QED
    BY <2>1, <2>2, <2>3, <2>4, <2>5
<1>15. CASE ToolSucceeded
  <2>1. FlagsOK'
    BY <1>15, Zenon DEF FlagsOK, ToolSucceeded, CountModelStep, FactToolOffered
  <2>2. ChoicesOK' /\ CountersOK'
    BY <1>15 DEF ChoicesOK, CountersOK, RetryInv, Nodes, Decisions, Statuses,
       Snapshots, ToolSucceeded, CountModelStep, FactToolOffered
  <2>3. RetryInv'
    BY <1>15 DEF FlagsOK, ChoicesOK, CountersOK, RetryInv, PlannerNodes,
       ToolSucceeded, CountModelStep, FactToolOffered
  <2>4. StepInv'
    BY <1>15, <1>a, <1>b DEF ChoicesOK, CountersOK, RetryInv, StepInv,
       PlannerNodes, ToolSucceeded, CountModelStep, FactToolOffered,
       ResearcherHasBudget
  <2>5. LengthInv' /\ CallInv'
    BY <1>15 DEF FlagsOK, ChoicesOK, CountersOK, RetryInv, LengthInv, CallInv,
       Spent, ToolSucceeded, CountModelStep, FactToolOffered
  <2> QED
    BY <2>1, <2>2, <2>3, <2>4, <2>5
<1>16. CASE ResearchFinished
  <2>1. FlagsOK'
    BY <1>16, Zenon DEF FlagsOK, ResearchFinished, CountModelStep
  <2>2. ChoicesOK' /\ CountersOK'
    BY <1>16 DEF ChoicesOK, CountersOK, RetryInv, Nodes, Decisions, Statuses,
       Snapshots, ResearchFinished, CountModelStep
  <2>3. RetryInv'
    BY <1>16 DEF FlagsOK, ChoicesOK, CountersOK, RetryInv, PlannerNodes,
       ResearchFinished, CountModelStep
  <2>4. StepInv'
    BY <1>16, <1>a, <1>b DEF ChoicesOK, CountersOK, RetryInv, StepInv,
       PlannerNodes, ResearchFinished, CountModelStep, ResearcherHasBudget
  <2>5. LengthInv' /\ CallInv'
    BY <1>16 DEF FlagsOK, ChoicesOK, CountersOK, RetryInv, LengthInv, CallInv,
       Spent, ResearchFinished, CountModelStep
  <2> QED
    BY <2>1, <2>2, <2>3, <2>4, <2>5
<1>17. CASE GateRefuses
  <2>1. FlagsOK'
    BY <1>17, Zenon DEF FlagsOK, GateRefuses, RouteAfterResultGate
  <2>2. ChoicesOK' /\ CountersOK'
    BY <1>17 DEF ChoicesOK, CountersOK, RetryInv, Nodes, Decisions, Statuses,
       Snapshots, GateRefuses, RouteAfterResultGate
  <2>3. RetryInv'
    BY <1>17 DEF FlagsOK, ChoicesOK, CountersOK, RetryInv, PlannerNodes,
       GateRefuses, RouteAfterResultGate
  <2>4. StepInv'
    BY <1>17, <1>a, <1>b DEF ChoicesOK, CountersOK, RetryInv, StepInv,
       PlannerNodes, GateRefuses, RouteAfterResultGate
  <2>5. LengthInv' /\ CallInv'
    BY <1>17 DEF FlagsOK, ChoicesOK, CountersOK, RetryInv, LengthInv, CallInv,
       Spent, GateRefuses, RouteAfterResultGate
  <2> QED
    BY <2>1, <2>2, <2>3, <2>4, <2>5
<1>18. CASE GatePasses
  <2>1. FlagsOK'
    BY <1>18, Zenon DEF FlagsOK, GatePasses, RouteAfterResultGate,
       GateRefusesReplan, GateRefusesStep
  <2>2. ChoicesOK' /\ CountersOK'
    BY <1>18 DEF ChoicesOK, CountersOK, RetryInv, Nodes, Decisions, Statuses,
       Snapshots, GatePasses, RouteAfterResultGate, GateRefusesReplan,
       GateRefusesStep
  <2>3. RetryInv'
    BY <1>18 DEF FlagsOK, ChoicesOK, CountersOK, RetryInv, PlannerNodes,
       GatePasses, RouteAfterResultGate, GateRefusesReplan, GateRefusesStep
  <2>4. StepInv'
    BY <1>18, <1>a, <1>b DEF ChoicesOK, CountersOK, RetryInv, StepInv,
       PlannerNodes, GatePasses, RouteAfterResultGate, GateRefusesReplan,
       GateRefusesStep
  <2>5. LengthInv' /\ CallInv'
    BY <1>18 DEF FlagsOK, ChoicesOK, CountersOK, RetryInv, LengthInv, CallInv,
       Spent, GatePasses, RouteAfterResultGate, GateRefusesReplan, GateRefusesStep
  <2> QED
    BY <2>1, <2>2, <2>3, <2>4, <2>5
<1>19. CASE CanonicalCacheProbe
  <2>1. FlagsOK'
    BY <1>19, Zenon DEF FlagsOK, CanonicalCacheProbe, RouteAfterCanonicalProbe,
       cache_hit
  <2>2. ChoicesOK' /\ CountersOK' /\ RetryInv'
    BY <1>19 DEF ChoicesOK, CountersOK, RetryInv, Nodes, Statuses, PlannerNodes,
       CanonicalCacheProbe, RouteAfterCanonicalProbe, cache_hit
  <2>3. StepInv'
    BY <1>19, <1>a, <1>b DEF ChoicesOK, CountersOK, RetryInv, StepInv,
       PlannerNodes, CanonicalCacheProbe, RouteAfterCanonicalProbe, cache_hit
  <2>4. LengthInv' /\ CallInv'
    BY <1>19 DEF ChoicesOK, CountersOK, RetryInv, LengthInv, CallInv, Spent,
       Nodes, CanonicalCacheProbe, RouteAfterCanonicalProbe, cache_hit
  <2> QED
    BY <2>1, <2>2, <2>3, <2>4
<1>20. CASE CacheHydrate
  <2>1. FlagsOK'
    BY <1>20, Zenon DEF FlagsOK, CacheHydrate, cache_hit
  <2>2. ChoicesOK' /\ CountersOK' /\ RetryInv'
    BY <1>20 DEF ChoicesOK, CountersOK, RetryInv, Nodes, Statuses, PlannerNodes,
       CacheHydrate, cache_hit
  <2>3. StepInv'
    BY <1>20, <1>a, <1>b DEF ChoicesOK, CountersOK, RetryInv, StepInv,
       PlannerNodes, CacheHydrate, cache_hit
  <2>4. LengthInv' /\ CallInv'
    BY <1>20 DEF ChoicesOK, CountersOK, RetryInv, LengthInv, CallInv, Spent,
       Nodes, CacheHydrate, cache_hit
  <2> QED
    BY <2>1, <2>2, <2>3, <2>4
<1>21. CASE CacheTouch
  <2>1. FlagsOK'
    BY <1>21, Zenon DEF FlagsOK, CacheTouch
  <2>2. ChoicesOK' /\ CountersOK' /\ RetryInv'
    BY <1>21 DEF ChoicesOK, CountersOK, RetryInv, Nodes, Statuses, PlannerNodes,
       CacheTouch
  <2>3. StepInv'
    BY <1>21, <1>a, <1>b DEF ChoicesOK, CountersOK, RetryInv, StepInv,
       PlannerNodes, CacheTouch
  <2>4. LengthInv' /\ CallInv'
    BY <1>21 DEF ChoicesOK, CountersOK, RetryInv, LengthInv, CallInv, Spent,
       Nodes, CacheTouch
  <2> QED
    BY <2>1, <2>2, <2>3, <2>4
<1>22. CASE VisualizerAccepted
  <2>1. FlagsOK'
    BY <1>22, Zenon DEF FlagsOK, VisualizerAccepted, RouteAfterVisualizer
  <2>2. ChoicesOK' /\ CountersOK'
    BY <1>22 DEF ChoicesOK, CountersOK, RetryInv, Nodes, Decisions, Statuses,
       Snapshots, VisualizerAccepted, RouteAfterVisualizer
  <2>3. RetryInv'
    BY <1>22 DEF FlagsOK, ChoicesOK, CountersOK, RetryInv, PlannerNodes,
       VisualizerAccepted, RouteAfterVisualizer
  <2>4. StepInv'
    BY <1>22, <1>a, <1>b DEF ChoicesOK, CountersOK, RetryInv, StepInv,
       PlannerNodes, VisualizerAccepted, RouteAfterVisualizer
  <2>5. LengthInv' /\ CallInv'
    BY <1>22 DEF FlagsOK, ChoicesOK, CountersOK, RetryInv, LengthInv, CallInv,
       Spent, VisualizerAccepted, RouteAfterVisualizer
  <2> QED
    BY <2>1, <2>2, <2>3, <2>4, <2>5
<1>23. CASE VisualizerRejected
  <2>1. FlagsOK'
    BY <1>23, Zenon DEF FlagsOK, VisualizerRejected, RouteAfterVisualizer,
       VisualizerMayRetry
  <2>2. ChoicesOK' /\ CountersOK'
    BY <1>23 DEF ChoicesOK, CountersOK, RetryInv, Nodes, Decisions, Statuses,
       Snapshots, VisualizerRejected, RouteAfterVisualizer, VisualizerMayRetry
  <2>3. RetryInv'
    BY <1>23 DEF FlagsOK, ChoicesOK, CountersOK, RetryInv, PlannerNodes,
       VisualizerRejected, RouteAfterVisualizer, VisualizerMayRetry
  <2>4. StepInv'
    BY <1>23, <1>a, <1>b DEF ChoicesOK, CountersOK, RetryInv, StepInv,
       PlannerNodes, VisualizerRejected, RouteAfterVisualizer, VisualizerMayRetry
  <2>5. LengthInv' /\ CallInv'
    BY <1>23 DEF FlagsOK, ChoicesOK, CountersOK, RetryInv, LengthInv, CallInv,
       Spent, VisualizerRejected, RouteAfterVisualizer, VisualizerMayRetry
  <2> QED
    BY <2>1, <2>2, <2>3, <2>4, <2>5
<1>24. CASE MemoryWrite
  <2>1. FlagsOK'
    BY <1>24, Zenon DEF FlagsOK, MemoryWrite, WorthRemembering
  <2>2. ChoicesOK' /\ CountersOK' /\ RetryInv'
    BY <1>24 DEF ChoicesOK, CountersOK, RetryInv, Nodes, Statuses, PlannerNodes,
       MemoryWrite, WorthRemembering
  <2>3. StepInv'
    BY <1>24, <1>a, <1>b DEF ChoicesOK, CountersOK, RetryInv, StepInv,
       PlannerNodes, MemoryWrite, WorthRemembering
  <2>4. LengthInv' /\ CallInv'
    BY <1>24 DEF ChoicesOK, CountersOK, RetryInv, LengthInv, CallInv, Spent,
       Nodes, MemoryWrite, WorthRemembering
  <2> QED
    BY <2>1, <2>2, <2>3, <2>4
<1>25. CASE ErrorResponse
  <2>1. FlagsOK'
    BY <1>25, Zenon DEF FlagsOK, ErrorResponse
  <2>2. ChoicesOK' /\ CountersOK' /\ RetryInv'
    BY <1>25 DEF ChoicesOK, CountersOK, RetryInv, Nodes, Statuses, PlannerNodes,
       ErrorResponse
  <2>3. StepInv'
    BY <1>25, <1>a, <1>b DEF ChoicesOK, CountersOK, RetryInv, StepInv,
       PlannerNodes, ErrorResponse
  <2>4. LengthInv' /\ CallInv'
    BY <1>25 DEF ChoicesOK, CountersOK, RetryInv, LengthInv, CallInv, Spent,
       Nodes, ErrorResponse
  <2> QED
    BY <2>1, <2>2, <2>3, <2>4
<1>26. CASE MergeSessionGraph
  <2>1. FlagsOK'
    BY <1>26, Zenon DEF FlagsOK, MergeSessionGraph
  <2>2. ChoicesOK' /\ CountersOK' /\ RetryInv'
    BY <1>26 DEF ChoicesOK, CountersOK, RetryInv, Nodes, Statuses, PlannerNodes,
       MergeSessionGraph
  <2>3. StepInv'
    BY <1>26, <1>a, <1>b DEF ChoicesOK, CountersOK, RetryInv, StepInv,
       PlannerNodes, MergeSessionGraph
  <2>4. LengthInv' /\ CallInv'
    BY <1>26 DEF ChoicesOK, CountersOK, RetryInv, LengthInv, CallInv, Spent,
       Nodes, MergeSessionGraph
  <2> QED
    BY <2>1, <2>2, <2>3, <2>4
<1>27. CASE CompactSession
  <2>1. FlagsOK'
    BY <1>27, Zenon DEF FlagsOK, CompactSession
  <2>2. ChoicesOK' /\ CountersOK' /\ RetryInv'
    BY <1>27 DEF ChoicesOK, CountersOK, RetryInv, Nodes, Statuses, PlannerNodes,
       CompactSession
  <2>3. StepInv'
    BY <1>27, <1>a, <1>b DEF ChoicesOK, CountersOK, RetryInv, StepInv,
       PlannerNodes, CompactSession
  <2>4. LengthInv' /\ CallInv'
    BY <1>27 DEF ChoicesOK, CountersOK, RetryInv, LengthInv, CallInv, Spent,
       Nodes, CompactSession
  <2> QED
    BY <2>1, <2>2, <2>3, <2>4
<1>28. CASE RecursionError
  <2>1. FlagsOK'
    BY <1>28, Zenon DEF FlagsOK, RecursionError
  <2>2. ChoicesOK' /\ CountersOK' /\ RetryInv'
    BY <1>28 DEF ChoicesOK, CountersOK, RetryInv, Nodes, Statuses, PlannerNodes,
       RecursionError
  <2>3. StepInv'
    BY <1>28, <1>a, <1>b DEF ChoicesOK, CountersOK, RetryInv, StepInv,
       PlannerNodes, RecursionError
  <2>4. LengthInv' /\ CallInv'
    BY <1>28 DEF ChoicesOK, CountersOK, RetryInv, LengthInv, CallInv, Spent,
       Nodes, RecursionError
  <2> QED
    BY <2>1, <2>2, <2>3, <2>4
<1>29. CASE UNCHANGED vars
  BY <1>29 DEF vars, FlagsOK, ChoicesOK, CountersOK, RetryInv, StepInv,
     LengthInv, CallInv, Spent, EffectiveStepLimit
<1> QED
  BY <1>1, <1>2, <1>3, <1>4, <1>5, <1>6, <1>7, <1>8, <1>9, <1>10, <1>11, <1>12,
     <1>13, <1>14, <1>15, <1>16, <1>17, <1>18, <1>19, <1>20, <1>21, <1>22, <1>23,
     <1>24, <1>25, <1>26, <1>27, <1>28, <1>29 DEF Next, PlannerAnalyze,
     PlannerTasks, Researcher, ResultGate, Visualizer

LEMMA TurnInvHolds == Spec => []TurnInv
  BY TurnInvInit, TurnInvStep, PTL DEF Spec

-----------------------------------------------------------------------------
(* What follows for every turn. *)

\* Every channel keeps its type, and no retry counter passes what it grants.
THEOREM TypeCorrect == Spec => []TypeOK
<1>1. TurnInv => TypeOK
  BY DEF TurnInv
<1> QED
  BY <1>1, TurnInvHolds, PTL

\* The Researcher node is never entered without a step of budget left.
THEOREM ResearcherFunded == Spec => []ResearcherEnteredWithBudget
<1>1. TurnInv => ResearcherEnteredWithBudget
  <2> SUFFICES ASSUME TurnInv, node = "researcher" PROVE ResearcherHasBudget
    BY DEF ResearcherEnteredWithBudget
  <2>1. research_step_count < EffectiveStepLimit
    BY DEF TurnInv, RetryInv, StepInv, PlannerNodes
  <2>2. EffectiveStepLimit \in Nat /\ EffectiveStepLimit <= HardStepLimit
    BY EffectiveLimitFacts DEF TurnInv
  <2>3. HardStepLimit \in Nat
    BY SettingsAssumption DEF HardStepLimit
  <2> QED
    BY <2>1, <2>2, <2>3 DEF ResearcherHasBudget, TurnInv, TypeOK, CountersOK
<1> QED
  BY <1>1, TurnInvHolds, PTL

\* A replan the gate granted is never refused by the Planner.
THEOREM ReplanAdmitted == Spec => []ReplanAlwaysAdmitted
<1>1. TurnInv => ReplanAlwaysAdmitted
  BY DEF TurnInv, StepInv, ReplanAlwaysAdmitted
<1> QED
  BY <1>1, TurnInvHolds, PTL

\* The nodes of a turn are bounded by the settings alone.
THEOREM TurnLength == Spec => []SuperstepsBounded
<1>1. TurnInv => SuperstepsBounded
  <2> SUFFICES ASSUME TurnInv PROVE SuperstepsBounded
    OBVIOUS
  <2>1. research_step_count <= HardStepLimit /\ HardStepLimit \in Nat
    <3>1. HardStepLimit \in Nat
      BY SettingsAssumption DEF HardStepLimit
    <3>2. EffectiveStepLimit \in Nat /\ EffectiveStepLimit <= HardStepLimit
      BY EffectiveLimitFacts DEF TurnInv
    <3> QED
      BY <3>1, <3>2 DEF TurnInv, StepInv, TypeOK, CountersOK
  <2>2. supersteps <= Spent + 11
    BY DEF TurnInv, TypeOK, ChoicesOK, CountersOK, LengthInv, RetryInv, Spent, Nodes
  <2> QED
    BY <2>1, <2>2, SettingsAssumption
    DEF SuperstepsBounded, SuperstepBound, Spent, TurnInv, TypeOK, CountersOK, StepInv
<1> QED
  BY <1>1, TurnInvHolds, PTL

\* What one request costs at most in model calls.
THEOREM TurnCost == Spec => []ModelCallsBounded
<1>1. TurnInv => ModelCallsBounded
  <2> SUFFICES ASSUME TurnInv PROVE ModelCallsBounded
    OBVIOUS
  <2>1. HardStepLimit \in Nat
    BY SettingsAssumption DEF HardStepLimit
  <2>2. EffectiveStepLimit \in Nat /\ EffectiveStepLimit <= HardStepLimit
    BY EffectiveLimitFacts DEF TurnInv
  <2> QED
    BY <2>1, <2>2, SettingsAssumption
    DEF ModelCallsBounded, TurnInv, TypeOK, CountersOK, StepInv, CallInv
<1> QED
  BY <1>1, TurnInvHolds, PTL

\* Settings whose graph_recursion_limit lies above the bound never let a turn
\* die of GraphRecursionError; the defaults (63 < 64) are such settings.
THEOREM LimitNeverHit == Spec => []RecursionLimitNeverHit
<1> DEFINE Alive == TurnInv /\ RecursionLimitNeverHit
<1>1. Init => Alive
  BY TurnInvInit DEF Init, RecursionLimitNeverHit
<1>2. Alive /\ [Next]_vars => Alive'
  <2> SUFFICES ASSUME Alive, [Next]_vars PROVE Alive'
    OBVIOUS
  <2>1. TurnInv'
    BY TurnInvStep
  <2>2. ASSUME SuperstepBound < graph_recursion_limit PROVE ~RecursionError
    <3> SUFFICES ASSUME RecursionError PROVE FALSE
      OBVIOUS
    <3>1. HardStepLimit \in Nat
      BY SettingsAssumption DEF HardStepLimit
    <3>2. EffectiveStepLimit \in Nat /\ EffectiveStepLimit <= HardStepLimit
      BY EffectiveLimitFacts DEF TurnInv
    <3>3. supersteps <= Spent + 10
      BY DEF RecursionError, TurnInv, TypeOK, ChoicesOK, CountersOK, LengthInv, RetryInv,
             Spent, Nodes
    <3>4. Spent + 11 <= SuperstepBound
      BY <3>1, <3>2, SettingsAssumption
      DEF SuperstepBound, Spent, TurnInv, TypeOK, CountersOK, StepInv
    <3> QED
      BY <2>2, <3>1, <3>3, <3>4, SettingsAssumption
      DEF RecursionError, Spent, SuperstepBound, TurnInv, TypeOK, CountersOK
  <2>3. /\ graph_recursion_limit' = graph_recursion_limit
        /\ node' # "recursion_error" \/ node' = node \/ RecursionError
    BY DEF RecursionError, Next, vars, Advance, BeginTurn, RawCacheProbe,
       PlannerAnalyze, AnalysisImpossible, AnalysisRejected, AnalysisAccepted, PlannerTasks,
       TasksImpossible, TasksRejected, TasksAccepted, Researcher, ResearcherGivesUp,
       NoResearcherAction, ProviderFailure, ResponseRejected, ReplanRequested, ToolFailed,
       ToolSucceeded, ResearchFinished, ResultGate, GateRefuses, GatePasses,
       CanonicalCacheProbe, CacheHydrate, CacheTouch, Visualizer, VisualizerAccepted,
       VisualizerRejected, MemoryWrite, ErrorResponse, MergeSessionGraph, CompactSession,
       RouteAfterRawProbe, RouteAfterPlannerAnalysis, RouteAfterPlannerTasks,
       RouteAfterResultGate, RouteAfterCanonicalProbe, RouteAfterVisualizer
  <2>4. RecursionLimitNeverHit'
    BY <2>2, <2>3 DEF RecursionLimitNeverHit
  <2> QED
    BY <2>1, <2>4
<1>3. Alive => RecursionLimitNeverHit
  OBVIOUS
<1> QED
  BY <1>1, <1>2, <1>3, PTL DEF Spec

-----------------------------------------------------------------------------
(* How a turn may end: answered, with a decided status, a failure          *)
(* explained and never taken back. A failure may be decided at several     *)
(* nodes and has to survive all that follow, so OutcomeInv says where a    *)
(* failed turn can be and what it carries there.                           *)

\* One of the channels _safe_error_code looks at names a stage.
Explained == planner_failed \/ llm_errors \/ research_failure_reason \/ tool_errors

\* After the answer, or after the explanation that stands for it.
TailNodes == {"merge_session_graph", "compact_session", "END"}

\* The nodes at which a turn can be once it has failed.
FailureNodes ==
  {"result_gate", "error_response", "cache_touch", "recursion_error"} \cup TailNodes

\* A failed turn is on its way to the explanation, which it carries.
FailureInv ==
  /\ run_status = "failed" => node \in FailureNodes /\ Explained
  /\ node = "error_response" => Explained \/ planner_decision = "refused"
  /\ node = "result_gate" =>
       \/ run_status \in {"running", "failed"}
       \/ run_status = "success" /\ research_complete

\* Who comes to the tail is answered; only a success was remembered.
AnswerInv ==
  /\ node \in {"memory_write", "cache_touch"} \cup TailNodes =>
       answered /\ run_status # "running"
  /\ node = "cache_hydrate" => cache_hit
  /\ write_operation = "add" =>
       node \in TailNodes \cup {"recursion_error"} /\ run_status = "success"

OutcomeInv == FailureInv /\ AnswerInv

-----------------------------------------------------------------------------

\* A turn starts running, with nothing answered.
LEMMA OutcomeInvInit == Init => OutcomeInv
  BY DEF Init, OutcomeInv, FailureInv, AnswerInv, TailNodes

\* Every node keeps the invariant. A retry the Visualizer grants is one the route
\* follows, for which TurnInv bounds the retry count.
LEMMA OutcomeInvStep ==
  TurnInv /\ OutcomeInv /\ [Next]_vars => OutcomeInv'
<1> SUFFICES ASSUME TurnInv, OutcomeInv, [Next]_vars PROVE OutcomeInv'
  OBVIOUS
<1>t. visualizer_contract_retry_count \in 0..1
  BY DEF TurnInv, TypeOK, CountersOK
<1> USE DEF OutcomeInv, Advance, outcomeVars, plannerVars, replanVars, researchVars,
            visualizerVars, cacheVars, TailNodes, FailureNodes
<1>1. CASE BeginTurn
  <2>1. FailureInv'
    BY <1>1 DEF FailureInv, Explained, BeginTurn
  <2>2. AnswerInv'
    BY <1>1 DEF AnswerInv, BeginTurn
  <2> QED
    BY <2>1, <2>2
<1>2. CASE RawCacheProbe
  <2>1. FailureInv'
    BY <1>2 DEF FailureInv, Explained, RawCacheProbe, RouteAfterRawProbe
  <2>2. AnswerInv'
    BY <1>2 DEF AnswerInv, RawCacheProbe, RouteAfterRawProbe
  <2> QED
    BY <2>1, <2>2
<1>3. CASE AnalysisImpossible
  <2>1. FailureInv'
    BY <1>3 DEF FailureInv, Explained, AnalysisImpossible, RouteAfterPlannerAnalysis
  <2>2. AnswerInv'
    BY <1>3 DEF AnswerInv, AnalysisImpossible, RouteAfterPlannerAnalysis
  <2> QED
    BY <2>1, <2>2
<1>4. CASE AnalysisRejected
  <2>1. FailureInv'
    BY <1>4 DEF FailureInv, Explained, AnalysisRejected, RouteAfterPlannerAnalysis,
       AnalysisRetries
  <2>2. AnswerInv'
    BY <1>4 DEF AnswerInv, AnalysisRejected, RouteAfterPlannerAnalysis, AnalysisRetries
  <2> QED
    BY <2>1, <2>2
<1>5. CASE AnalysisAccepted
  <2>1. FailureInv'
    BY <1>5 DEF FailureInv, Explained, AnalysisAccepted, RouteAfterPlannerAnalysis
  <2>2. AnswerInv'
    BY <1>5 DEF AnswerInv, AnalysisAccepted, RouteAfterPlannerAnalysis
  <2> QED
    BY <2>1, <2>2
<1>6. CASE TasksImpossible
  <2>1. FailureInv'
    BY <1>6 DEF FailureInv, Explained, TasksImpossible, RouteAfterPlannerTasks
  <2>2. AnswerInv'
    BY <1>6 DEF AnswerInv, TasksImpossible, RouteAfterPlannerTasks
  <2> QED
    BY <2>1, <2>2
<1>7. CASE TasksRejected
  <2>1. FailureInv'
    BY <1>7 DEF FailureInv, Explained, TasksRejected, RouteAfterPlannerTasks
  <2>2. AnswerInv'
    BY <1>7 DEF AnswerInv, TasksRejected, RouteAfterPlannerTasks
  <2> QED
    BY <2>1, <2>2
<1>8. CASE TasksAccepted
  <2>1. FailureInv'
    BY <1>8 DEF FailureInv, Explained, TasksAccepted, RouteAfterPlannerTasks
  <2>2. AnswerInv'
    BY <1>8 DEF AnswerInv, TasksAccepted, RouteAfterPlannerTasks
  <2> QED
    BY <2>1, <2>2
<1>9. CASE ResearcherGivesUp
  <2>1. FailureInv'
    BY <1>9 DEF FailureInv, Explained, ResearcherGivesUp
  <2>2. AnswerInv'
    BY <1>9 DEF AnswerInv, ResearcherGivesUp
  <2> QED
    BY <2>1, <2>2
<1>10. CASE NoResearcherAction
  <2>1. FailureInv'
    BY <1>10 DEF FailureInv, Explained, NoResearcherAction, CorrectOrFail
  <2>2. AnswerInv'
    BY <1>10 DEF AnswerInv, NoResearcherAction, CorrectOrFail
  <2> QED
    BY <2>1, <2>2
<1>11. CASE ProviderFailure
  <2>1. FailureInv'
    BY <1>11 DEF FailureInv, Explained, ProviderFailure
  <2>2. AnswerInv'
    BY <1>11 DEF AnswerInv, ProviderFailure
  <2> QED
    BY <2>1, <2>2
<1>12. CASE ResponseRejected
  <2>1. FailureInv'
    BY <1>12 DEF FailureInv, Explained, ResponseRejected, CorrectOrFail
  <2>2. AnswerInv'
    BY <1>12 DEF AnswerInv, ResponseRejected, CorrectOrFail
  <2> QED
    BY <2>1, <2>2
<1>13. CASE ReplanRequested
  <2>1. FailureInv'
    BY <1>13 DEF FailureInv, Explained, ReplanRequested
  <2>2. AnswerInv'
    BY <1>13 DEF AnswerInv, ReplanRequested
  <2> QED
    BY <2>1, <2>2
<1>14. CASE ToolFailed
  <2>1. FailureInv'
    BY <1>14 DEF FailureInv, Explained, ToolFailed
  <2>2. AnswerInv'
    BY <1>14 DEF AnswerInv, ToolFailed
  <2> QED
    BY <2>1, <2>2
<1>15. CASE ToolSucceeded
  <2>1. FailureInv'
    BY <1>15 DEF FailureInv, Explained, ToolSucceeded
  <2>2. AnswerInv'
    BY <1>15 DEF AnswerInv, ToolSucceeded
  <2> QED
    BY <2>1, <2>2
<1>16. CASE ResearchFinished
  <2>1. FailureInv'
    BY <1>16 DEF FailureInv, Explained, ResearchFinished
  <2>2. AnswerInv'
    BY <1>16 DEF AnswerInv, ResearchFinished
  <2> QED
    BY <2>1, <2>2
<1>17. CASE GateRefuses
  <2>1. FailureInv'
    BY <1>17 DEF FailureInv, Explained, GateRefuses, RouteAfterResultGate
  <2>2. AnswerInv'
    BY <1>17 DEF AnswerInv, GateRefuses, RouteAfterResultGate
  <2> QED
    BY <2>1, <2>2
<1>18. CASE GatePasses
  <2>1. FailureInv'
    BY <1>18 DEF FailureInv, Explained, GatePasses, RouteAfterResultGate
  <2>2. AnswerInv'
    BY <1>18 DEF AnswerInv, GatePasses, RouteAfterResultGate
  <2> QED
    BY <2>1, <2>2
<1>19. CASE CanonicalCacheProbe
  <2>1. FailureInv'
    BY <1>19 DEF FailureInv, Explained, CanonicalCacheProbe, RouteAfterCanonicalProbe
  <2>2. AnswerInv'
    BY <1>19 DEF AnswerInv, CanonicalCacheProbe, RouteAfterCanonicalProbe
  <2> QED
    BY <2>1, <2>2
<1>20. CASE CacheHydrate
  <2>1. FailureInv'
    BY <1>20 DEF FailureInv, Explained, CacheHydrate
  <2>2. AnswerInv'
    BY <1>20 DEF AnswerInv, CacheHydrate
  <2> QED
    BY <2>1, <2>2
<1>21. CASE CacheTouch
  <2>1. FailureInv'
    BY <1>21 DEF FailureInv, Explained, CacheTouch
  <2>2. AnswerInv'
    BY <1>21 DEF AnswerInv, CacheTouch
  <2> QED
    BY <2>1, <2>2
<1>22. CASE VisualizerAccepted
  <2>1. FailureInv'
    BY <1>22 DEF FailureInv, Explained, VisualizerAccepted, RouteAfterVisualizer
  <2>2. AnswerInv'
    BY <1>22 DEF AnswerInv, VisualizerAccepted, RouteAfterVisualizer
  <2> QED
    BY <2>1, <2>2
<1>23. CASE VisualizerRejected
  <2>1. FailureInv'
    BY <1>23 DEF FailureInv, Explained, VisualizerRejected, RouteAfterVisualizer,
       VisualizerMayRetry
  <2>2. AnswerInv'
    BY <1>23, <1>t DEF AnswerInv, VisualizerRejected, RouteAfterVisualizer,
       VisualizerMayRetry
  <2> QED
    BY <2>1, <2>2
<1>24. CASE MemoryWrite
  <2>1. FailureInv'
    BY <1>24 DEF FailureInv, Explained, MemoryWrite, WorthRemembering
  <2>2. AnswerInv'
    BY <1>24 DEF AnswerInv, MemoryWrite, WorthRemembering
  <2> QED
    BY <2>1, <2>2
<1>25. CASE ErrorResponse
  <2>1. FailureInv'
    BY <1>25 DEF FailureInv, Explained, ErrorResponse
  <2>2. AnswerInv'
    BY <1>25 DEF AnswerInv, ErrorResponse
  <2> QED
    BY <2>1, <2>2
<1>26. CASE MergeSessionGraph
  <2>1. FailureInv'
    BY <1>26 DEF FailureInv, Explained, MergeSessionGraph
  <2>2. AnswerInv'
    BY <1>26 DEF AnswerInv, MergeSessionGraph
  <2> QED
    BY <2>1, <2>2
<1>27. CASE CompactSession
  <2>1. FailureInv'
    BY <1>27 DEF FailureInv, Explained, CompactSession
  <2>2. AnswerInv'
    BY <1>27 DEF AnswerInv, CompactSession
  <2> QED
    BY <2>1, <2>2
<1>28. CASE RecursionError
  <2>1. FailureInv'
    BY <1>28 DEF FailureInv, Explained, RecursionError
  <2>2. AnswerInv'
    BY <1>28 DEF AnswerInv, RecursionError
  <2> QED
    BY <2>1, <2>2
<1>29. CASE UNCHANGED vars
  BY <1>29 DEF vars, FailureInv, AnswerInv, Explained, cache_hit
<1> QED
  BY <1>1, <1>2, <1>3, <1>4, <1>5, <1>6, <1>7, <1>8, <1>9, <1>10, <1>11, <1>12,
     <1>13, <1>14, <1>15, <1>16, <1>17, <1>18, <1>19, <1>20, <1>21, <1>22, <1>23,
     <1>24, <1>25, <1>26, <1>27, <1>28, <1>29
     DEF Next, PlannerAnalyze, PlannerTasks, Researcher, ResultGate, Visualizer

\* The invariant holds of every turn.
LEMMA OutcomeInvHolds == Spec => [](TurnInv /\ OutcomeInv)
  BY TurnInvInit, TurnInvStep, OutcomeInvInit, OutcomeInvStep, PTL DEF Spec

-----------------------------------------------------------------------------

\* Whatever the settings: a turn that ends has an answer and a decided status,
\* so _build_response does not reject it.
THEOREM TurnEndsAnswered == Spec => []EndsAnswered
<1>1. OutcomeInv => EndsAnswered
  BY DEF OutcomeInv, AnswerInv, EndsAnswered, TailNodes
<1> QED
  BY <1>1, OutcomeInvHolds, PTL

\* Whatever the settings: a turn that ends failed names a stage, so that
\* _safe_error_code does not fall back on AGENT_FAILURE.
THEOREM FailureIsExplained == Spec => []FailedTurnIsExplained
<1>1. TurnInv /\ OutcomeInv => FailedTurnIsExplained
  <2> SUFFICES ASSUME OutcomeInv, run_status = "failed"
               PROVE  SafeErrorCode # "AGENT_FAILURE"
    BY DEF FailedTurnIsExplained
  <2>1. Explained
    BY DEF OutcomeInv, FailureInv
  <2> QED
    BY <2>1 DEF Explained, SafeErrorCode
<1> QED
  BY <1>1, OutcomeInvHolds, PTL

\* Whatever the settings: no node turns a failure into a success, and no failed
\* turn is written to long-term memory.
THEOREM FailureStays == Spec => FailureIsSticky
<1>1. TurnInv /\ OutcomeInv /\ OutcomeInv' /\ [Next]_vars =>
        [run_status = "failed" => run_status' = "failed" /\ write_operation' # "add"]_vars
  <2> SUFFICES ASSUME OutcomeInv, OutcomeInv', Next, run_status = "failed"
               PROVE  run_status' = "failed" /\ write_operation' # "add"
    OBVIOUS
  <2>1. node \in FailureNodes
    BY DEF OutcomeInv, FailureInv
  <2>2. run_status' = "failed"
    BY <2>1
    DEF FailureNodes, TailNodes, OutcomeInv, AnswerInv, Next, BeginTurn, RawCacheProbe,
        PlannerAnalyze, AnalysisImpossible, AnalysisRejected, AnalysisAccepted,
        PlannerTasks, TasksImpossible, TasksRejected, TasksAccepted, Researcher,
        ResearcherGivesUp, NoResearcherAction, ProviderFailure, ResponseRejected,
        ReplanRequested, ToolFailed, ToolSucceeded, ResearchFinished, ResultGate,
        GateRefuses, GatePasses, CanonicalCacheProbe, CacheHydrate, CacheTouch,
        Visualizer, VisualizerAccepted, VisualizerRejected, MemoryWrite, ErrorResponse,
        MergeSessionGraph, CompactSession, RecursionError, outcomeVars
  <2>3. write_operation' # "add"
    BY <2>2 DEF OutcomeInv, AnswerInv
  <2> QED
    BY <2>2, <2>3
<1> QED
  BY <1>1, OutcomeInvHolds, PTL DEF Spec, FailureIsSticky

=============================================================================

\* Every retry, replan and budget limit is reached within a short turn.
SPECIFICATION Spec
CONSTANTS
  MaxResearchSteps = 3
  AgentMaxIterations = 4
  MaxToolCalls = 2
  MaxReplans = 1
  RetryStepAllowance = 1
  GraphRecursionLimits = {16, 27}
INVARIANTS
  TypeOK
  ResearcherEnteredWithBudget
  ReplanAlwaysAdmitted
  ModelCallsBounded
  RecursionLimitNeverHit
  EndsAnswered
  FailedTurnIsExplained
PROPERTIES
  FailureIsSticky
  TurnTerminates
\* A turn that reached END stops.
CHECK_DEADLOCK FALSE

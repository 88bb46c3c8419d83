\* The contract of the terminal review, against what Planner stores.
SPECIFICATION Spec
CONSTANTS
  MaxResearchSteps = 2
  AgentMaxIterations = 4
  MaxToolCalls = 2
  MaxReplans = 1
  RetryStepAllowance = 1
  GraphRecursionLimits = {64}
PROPERTIES
  TerminalDecisionReviewed
CHECK_DEADLOCK FALSE

SPECIFICATION Spec
CONSTANTS
  Agents <- MCAgents
  AgentCategory <- MCCategory
  AllowedActions <- MCAllowed
  Overlap <- MCOverlap
  Tools <- MCTools
  PlanSteps <- MCPlanSteps
  MaxPlan = 2
  Scores = {7}
  Replies = {"good", "low", "timeout"}
  HopLimit = 3
  RetryLimit = 2
  TokenLimit = 50000
  GuardrailOn = TRUE
  NoAgent = NoAgent
  NoTool = NoTool
INVARIANT EveryStepRuns
CHECK_DEADLOCK FALSE

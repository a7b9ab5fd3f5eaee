SPECIFICATION FairSpec
CONSTANTS
  Agents <- MCAgents
  AgentCategory <- MCCategory
  AllowedActions <- MCAllowed
  Overlap <- MCOverlap
  Tools <- MCTools
  PlanSteps <- MCPlanSteps
  MaxPlan = 3
  Scores = {7}
  Replies = {"good", "low", "empty", "badscore"}
  HopLimit = 3
  RetryLimit = 2
  TokenLimit = 50000
  GuardrailOn = TRUE
  NoAgent = NoAgent
  NoTool = NoTool
INVARIANTS
  TypeOK
  ResultsFollowPlan
  HopsWithinLimit
  CallsWithinRetries
  CallsWerePreValidated
  SuperstepsBounded
  AuditTrail
  
  DeliveredWasScanned
  CallsPaidFor
  GivenUpAfterAllTries
  HaltsAreTrue
PROPERTIES
  PassedResultsFrozen
  HaltIsFinal
  ExecutesPlan
  IsGraphRun
  Terminates
CHECK_DEADLOCK FALSE

SPECIFICATION FairSpec
CONSTANTS
  Requests <- MCRequests
  SessionOf <- MCSessionOf
  Turn <- MCTurn
  PoolSize = 1
  Steps = 2
  MaxNow = 2
INVARIANTS
  TypeOK
  
  LogKeepsEntries
  MetricsAddUp
  ShownAnswersAreComplete
PROPERTIES
  RequestsAreGraphRuns
  
  EveryRequestEnds
CHECK_DEADLOCK FALSE

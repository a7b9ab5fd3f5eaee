SPECIFICATION FairSpec
CONSTANTS
  Timeout = 2
  RetryLimit = 2
  MaxElapsed = 5
INVARIANTS
  TypeOK
  AttemptsDoNotOverlap
  RecordsAreFair
PROPERTIES
  StopsWaiting
  ReturnsIfAgentsFinish
  CallsExecutePlan
CHECK_DEADLOCK FALSE

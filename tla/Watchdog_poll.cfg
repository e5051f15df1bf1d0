SPECIFICATION FairSpec
CONSTANTS
  TimeoutSeconds = 7
  PollInterval = 2
  RequestTimeout = 2
  MaxTransient = 1
INVARIANTS
  TypeOK
  ResultIsFinal
  BudgetExact
  ExitsInTime
  NoFalseTimeout
PROPERTIES
  Exits
CHECK_DEADLOCK FALSE

SPECIFICATION Spec
CONSTANTS
  Task = {t1}
  Worker = {w1}
  Key = {k1}
  EmptyKey = EmptyKey
  None = None
  ClientKey = {k1, None}
  Policy = "idempotent"
  DelayRecovery = TRUE
  Legacy = {}
  GlobalPending = 2
  WorkerPending = 2
  GlobalActive = 2
  WorkerActive = None
  StoreFails = FALSE
  MaxBoots = 2
SYMMETRY MCSymmetry
PROPERTIES
  RunningSurvivesRestart
CHECK_DEADLOCK FALSE

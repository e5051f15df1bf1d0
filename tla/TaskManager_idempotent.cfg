SPECIFICATION Spec
CONSTANTS
  Task = {t1, t2, t3}
  Worker = {w1}
  Key = {k1}
  EmptyKey = EmptyKey
  None = None
  ClientKey = {k1, EmptyKey}
  Policy = "idempotent"
  DelayRecovery = TRUE
  Legacy = {t1}
  GlobalPending = 1
  WorkerPending = 2
  GlobalActive = 2
  WorkerActive = None
  StoreFails = TRUE
  MaxBoots = 2
SYMMETRY MCSymmetry
INVARIANTS
  TypeOK
  AtMostOnce
  HandlesMatchRows
  DispatchOnRecord
  OneTaskPerKey
  NoOrphan
PROPERTIES
  TerminalIsFinal
  FollowsStateMachine
  PostsOnlyRunning
  FinishedOnce
  ImplementsContract
CHECK_DEADLOCK FALSE

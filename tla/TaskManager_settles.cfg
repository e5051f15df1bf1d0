SPECIFICATION FairSpec
CONSTANTS
  Task = {t1, t2, t3}
  Worker = {w1}
  Key = {k1}
  EmptyKey = EmptyKey
  None = None
  ClientKey = {k1, None}
  Policy = "idempotent"
  DelayRecovery = TRUE
  Legacy = {}
  GlobalPending = 2
  WorkerPending = 2
  GlobalActive = 1
  WorkerActive = 1
  StoreFails = FALSE
  MaxBoots = 3
INVARIANTS
  AttemptsCoverPosts
  BacklogBounded
PROPERTIES
  Settles
CHECK_DEADLOCK FALSE

SPECIFICATION DbSpec
CONSTANTS
  Task = {t1, t2}
  Worker = {w1}
  Key = {}
  EmptyKey = EmptyKey
  None = None
  ClientKey = {EmptyKey, None}
  Policy = "manual"
  DelayRecovery = FALSE
  Legacy = {t1}
  GlobalPending = 2
  WorkerPending = 2
  GlobalActive = 2
  WorkerActive = None
  StoreFails = TRUE
  MaxBoots = 3
  Database = {A, B}
  First = A
SYMMETRY MCSymmetry
INVARIANTS
  NoOrphan
PROPERTIES
  KeepsContract
  NothingStranded
CHECK_DEADLOCK FALSE

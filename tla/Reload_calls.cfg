SPECIFICATION FairSpec
CONSTANTS
  Call = {a1, a2, s1, s2}
  SyncCall = {s1, s2}
  None = None
  SyncActive <- MCSyncActive
  WorkerActive = None
  FailureThreshold = 2
  Service = {w1}
  Configured <- MCConfigured
  Removed = {w1}
  MaxConcurrent <- MCMaxConcurrent
  MaxReloads = 2
INVARIANTS
  PermitsSurviveReload
PROPERTIES
  EntersCurrent
  CallsEnd

SPECIFICATION FairSpec
CONSTANTS
  Call = {a1, a2, s1, s2}
  SyncCall = {s1, s2}
  Worker = {w1, w2}
  MaxConcurrent <- MCMaxConcurrent
  Wide = {w2}
  Manager <- MCManager
  Under <- MCUnder
  SyncActive <- MCSyncActive
  WorkerActive = 2
  None = None
  FailureThreshold = 2
  Malformed = {w1}
INVARIANTS
  TypeOK
  ActiveExact
  PermitsConserved
  NoLostWakeup
PROPERTIES
  StreakOpens
  CallsEnd

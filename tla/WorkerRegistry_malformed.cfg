SPECIFICATION Spec
CONSTANTS
  Call = {a1, s1}
  SyncCall = {s1}
  Worker = {w1}
  MaxConcurrent <- MCMaxConcurrent
  Wide = {}
  Manager <- MCManager
  Under <- MCUnder
  SyncActive <- MCSyncActive
  WorkerActive = None
  None = None
  FailureThreshold = 2
  Malformed = {w1}
PROPERTIES
  MalformedOpens

SPECIFICATION FairSpec
CONSTANTS
  Lister = {l1, l2}
  w1 = w1
  w2 = w2
  WorkerSeq <- MCWorkerSeq
  Cache = 1
  None = None
  MaxTime = 4
INVARIANTS
  TypeOK
PROPERTIES
  Truthful
  ServedFresh
  ProbesShared
  ListsEnd

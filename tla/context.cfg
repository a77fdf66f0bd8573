SPECIFICATION Spec
CONSTANTS
  f1 = f1
  f2 = f2
  w1 = w1
  w2 = w2
  q1 = q1
  r1 = r1
  x1 = x1
  None = None
  Fields <- MCFields
  Saved <- MCSaved
  Kinds <- MCKinds
  Workers <- MCWorkers
  Local <- MCLocal
  Readers <- MCReaders
  Refreshes <- MCRefreshes
  Scheduled <- MCScheduled
  Flushes <- MCFlushes
  MaxTries = 2
  MaxRev = 2
  MaxOps = 2
INVARIANTS SourcesExist ReadsRecent
PROPERTIES NoLostEdit PublishesAll RunPublishesOnce

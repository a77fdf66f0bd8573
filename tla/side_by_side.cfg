SPECIFICATION MCSpec
CONSTANTS
  p1 = p1
  p2 = p2
  None = None
  scope = scope
  request = request
  timer = timer
  i1 = i1
  i2 = i2
  t1 = t1
  t2 = t2
  g1 = g1
  g2 = g2
  v1 = v1
  v2 = v2
  v3 = v3
  s1 = s1
  s2 = s2
  r1 = r1
  r2 = r2
  Pipelines <- TwoPipelines
  Admins = {a1, a2}
  Edits <- SomeEdits
  Defaults <- SomeDefaults
  CanDisable = {p1}
  MinFrequency = 2
  MaxFrequency = 3
  SecondsOfDay = 2
  MaxRevision = 3
  Readers = {t1, t2}
  MaxTries = 1
  MaxGenerations = 2
  MaxFlushes = 1
  Askers = {t1, t2}
  Ttl = 2
  Stay = 1
  MaxAttempts = 2
  MaxPublished = 2
  MaxClock = 4
  Nothing = Nothing
  Pools = {g1, g2}
  Reservations = {r1, r2}
  Flags = {"azureSpot"}
  Users = {t1, t2}
  Vms = {v1, v2, v3}
  SubscriptionOf <- TwoSubscriptions
  MaxBatch = 2
  MaxAsked = 2
  Nobody = None
  Subs = {s1, s2}
  Regions = {r1, r2}
  MaxThrottles = 1
  MaxMoves = 2
  MaxFaults = 3
  MayFlush = TRUE
INVARIANTS EveryEditCounted CurrentIfMatched AnswerRecent FailsByFlushOnly
  LagBounded StatusTruthful DetailsUnfold TransactionsWhole AnsweredWritten
  KnownCaptured GapsByTornRuns
PROPERTIES NoBlindOverwrite ScopesAreFreed ZonesReconciled
CHECK_DEADLOCK FALSE

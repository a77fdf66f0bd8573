SPECIFICATION Spec
CONSTANTS
  a = a
  b = b
  Subs = {a, b}
  Whole = Whole
  NoState = NoState
  Scopes <- PerSubScopes
  Changes <- Reverting
  NStreams = 1
  History = 2
  SummaryDays = 2
  MaxDay = 3
  MaxThrottles = 1
  FlushMaxAttempts = 2
  MaxFails = 1
  ReadFails = FALSE
  Flushes = FALSE
  FlushBreaks = FALSE
  Upgrade = FALSE
INVARIANT CoverageLoaded

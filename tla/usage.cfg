SPECIFICATION MCSpec
CONSTANTS
  a = a
  b = b
  Subs = {a, b}
  Whole = Whole
  NoState = NoState
  Scopes <- AllScopes
  Changes <- AnyChange
  NStreams = 1
  History = 2
  SummaryDays = 2
  MaxDay = 3
  MaxThrottles = 1
  FlushMaxAttempts = 2
  MaxFails = 1
  ReadFails = FALSE
  Flushes = TRUE
  FlushBreaks = TRUE
  Upgrade = TRUE
INVARIANTS GapsAreKnown BlanksAreKnown LoadedAsItGrows
PROPERTIES RefusedUntilFlush RemovedGone PlansExact CatchesUpAsItGrows

SPECIFICATION MCSplitSpec
CONSTANTS
  s1 = s1
  s2 = s2
  Subs = {s1}
  Ops <- SplitOps
  Events <- SplitEvents
  Whole = {}
  Lag = 1
  Overlap = 1
  Historical = 1
  Retention = 1
  Horizon = 2
  MaxUnits = 2
  Delay = 2
  Slots = {1}
  MaxTime = 3
  MaxVersion = 1
  MaxFails = 0
  None = None
  NoRow = NoRow
  NoCoverage = NoCoverage
  NoUnit = NoUnit
PROPERTIES TransitionsMonotonic
CHECK_DEADLOCK FALSE

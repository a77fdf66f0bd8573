SPECIFICATION MCLiveSpec
CONSTANTS
  s1 = s1
  s2 = s2
  Subs = {s1, s2}
  Ops <- TheOps
  Events <- TheEvents
  Whole <- TheWhole
  Lag = 1
  Overlap = 1
  Historical = 1
  Retention = 1
  Horizon = 2
  MaxUnits = 2
  Delay = 2
  Slots = {1, 2}
  MaxTime = 3
  MaxVersion = 2
  MaxFails = 1
  None = None
  NoRow = NoRow
  NoCoverage = NoCoverage
  NoUnit = NoUnit
INVARIANTS CoverageStored SpillReachable
PROPERTIES FollowsLife ReplayDrains
CHECK_DEADLOCK FALSE

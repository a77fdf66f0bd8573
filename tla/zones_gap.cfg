SPECIFICATION ZoneSpec
CONSTANTS
  Subs = {s1, s2}
  Regions = {r1, r2}
  MaxThrottles = 1
  MaxMoves = 2
  MaxFaults = 1
  MayFlush = FALSE
INVARIANTS SnapshotComplete
CHECK_DEADLOCK FALSE

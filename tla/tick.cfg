SPECIFICATION MCSpec
CONSTANTS
  Never = Never
  NoGroup = NoGroup
  cost = cost
  N = 3
  Group <- ContendedAndOther
  Frequency <- UnevenFrequencies
  Anchor <- UnevenAnchors
  Workers = {w1}
  Cap = 2
  Manual = {3}
  Edited = {1}
  Watched = {1}
  Failures = TRUE
  Timely = FALSE
  Day = 1
  MaxTime = 2
INVARIANTS TickBudget GroupSerial WaitOfTimed
 
CHECK_DEADLOCK FALSE

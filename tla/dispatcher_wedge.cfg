SPECIFICATION FairSpec
CONSTANTS
  None = None
  p1 = p1
  h1 = h1
  h2 = h2
  i1 = i1
  i2 = i2
  i3 = i3
  Pipelines = {p1}
  Handlers = {h1, h2}
  Duties <- TimerDuties
  Instances = {i1, i2}
  Faults <- CrashOnly
  Prompt = TRUE
  MaxTime = 0
PROPERTY ScopeIsFreed
CHECK_DEADLOCK FALSE

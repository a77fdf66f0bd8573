SPECIFICATION Spec
CONSTANTS
  None = None
  p1 = p1
  h1 = h1
  h2 = h2
  i1 = i1
  i2 = i2
  i3 = i3
  Pipelines = {p1}
  Handlers = {h1, h2}
  Duties <- StartDuties
  Instances = {i1, i2, i3}
  Faults <- NoFaults
  Prompt = TRUE
  MaxTime = 0
INVARIANT NoDoubleLaunch
CHECK_DEADLOCK FALSE

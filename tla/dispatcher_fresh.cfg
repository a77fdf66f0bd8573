SPECIFICATION Spec
CONSTANTS
  None = None
  p1 = p1
  h1 = h1
  h2 = h2
  i1 = i1
  i2 = i2
  i3 = i3
  Pipelines = {p1}
  Handlers = {h1, h2}
  Duties <- AllDuties
  Instances = {i1, i2, i3}
  Faults <- KnownFaults
  Prompt = TRUE
  MaxTime = 1
SYMMETRY SymmetricThree
INVARIANTS NoDoubleLaunch OutcomeFaithful
PROPERTY ImplementsScopeLock
ACTION_CONSTRAINT FreshStarts
CHECK_DEADLOCK FALSE

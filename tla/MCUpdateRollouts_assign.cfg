SPECIFICATION Spec
CONSTANTS
  r1 = r1
  r2 = r2
  d1 = d1
  h1 = h1
  h2 = h2
  w1 = w1
  w2 = w2
  None = None
  Rollouts = {r1, r2}
  Devices = {d1}
  Handlers = {h1, h2}
  Reporters = {w1, w2}
  RequestedStatuses = {"active", "paused"}
  SampleReports <- SomeReports
  HasAdapter = TRUE
  MaxChanges = 1
  MaxReports = 2
INVARIANTS
  ProjectedIsDesired
  ConvergedIsAssigned
  RowsAgreeUnlessTorn
PROPERTIES
  AssignmentIsDecided
CHECK_DEADLOCK FALSE

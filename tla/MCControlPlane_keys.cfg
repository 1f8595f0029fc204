SPECIFICATION Spec
CONSTANTS
  b1 = b1
  b2 = b2
  t1 = t1
  t2 = t2
  None = None
  Requests <- SampleRequests
  Subjects <- SampleSubjects
  Keys <- SampleKeys
  Bodies = {b1, b2}
  Threads = {t1, t2}
  HasAuthenticator = TRUE
  TTL = 1
  Limit = 2
  Window = 2
  MaxServed = 4
  MaxClock = 2
SYMMETRY Symmetry
INVARIANTS
  LimitHolds
  ReplayFits
PROPERTIES
  RunsAgainOnlyWhenOld
CHECK_DEADLOCK FALSE

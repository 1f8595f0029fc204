SPECIFICATION Spec
CONSTANTS
  h1 = h1
  h2 = h2
  Devices = {"d1"}
  Messages <- Reports
  LifecycleEvents <- Sessions
  Handlers = {h1, h2}
  MaxClock = 2
  MaxRestarts = 1
  MaxUnknown = 1
SYMMETRY Symmetry
INVARIANTS
  AckedIsPersisted
  CacheMatchesLatest
  ConnectedIsApplied
PROPERTIES
  RevokedIsSilent
  StaleEventsIgnored

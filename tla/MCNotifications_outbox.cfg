SPECIFICATION Spec
CONSTANTS
  a1 = a1
  a2 = a2
  r1 = r1
  f1 = f1
  f2 = f2
  m1 = m1
  m2 = m2
  w1 = w1
  w2 = w2
  site = site
  None = None
  Recipients = {r1}
  Alerts = {a1, a2}
  Families = {f1, f2}
  FamilyRequests = {{}, {f2}, {None}}
  EmailOf <- OneAddress
  SiteOf <- OneSite
  FamilyOf <- SameFamily
  AlertSite <- SameSite
  Managers = {m1, m2}
  Dispatchers = {"d"}
  Workers = {w1, w2}
  BatchLimit = 2
  MaxChanges = 2
  MaxLists = 2
INVARIANTS
  AtMostOneEmail
  OutboxAgreesWithProvider
PROPERTIES
  QueuedOnlyIfEligible
  UndeletedOnlyByRace
  ClaimedIsDecided
CHECK_DEADLOCK FALSE

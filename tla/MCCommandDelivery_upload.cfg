SPECIFICATION DeliverySpec
CONSTANTS
  c1 = c1
  h1 = h1
  h2 = h2
  t1 = t1
  t2 = t2
  u1 = u1
  u2 = u2
  None = None
  Commands = {c1}
  Handlers = {h1}
  CommandTypes <- MCTypes
  Definitions <- MCDefinitions
  Reports = {"succeeded", "failed"}
  Kinds <- SixKinds
  AllowedTypes = {"upload_artifact", "check_update_status"}
  Threads = {t1, t2}
  UploadIDs = {u1, u2}
  Sizes = {1, 2, 3}
  MaxSizeBytes = 2
  URLTTL = 1
  MaxNotices = 1
  MaxClock = 3
INVARIANTS
  SucceededIsStored
PROPERTIES
  ImplementsLifecycle

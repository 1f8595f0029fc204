SPECIFICATION FairSpec
CONSTANTS
  MaxSessions = 1
  MaxCerts = 1
  MaxKeys = 1
  MaxCrashes = 1
  MaxFaults = 0
  MaxLosses = 0
PROPERTIES
  ProvisionedIsDecided
CHECK_DEADLOCK FALSE

SPECIFICATION FairSpec
CONSTANTS
  MaxSessions = 2
  MaxCerts = 2
  MaxKeys = 2
  MaxCrashes = 1
  MaxFaults = 1
  MaxLosses = 1
INVARIANTS
  ClaimIsConfirmed
  CredentialIsTheConfirmedOne
  TokenIsOfSession
PROPERTIES
  ProvisionedIsKept
  ApprovedIsDecided
  ProvisionedIsDecidedUndisturbed
CHECK_DEADLOCK FALSE

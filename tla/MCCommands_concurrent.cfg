SPECIFICATION FairSpec
CONSTANTS
  Commands = {c1}
  Handlers = {h1, h2}
  CommandTypes <- MCTypes
  Definitions <- MCDefinitions
  Reports = {"running", "succeeded", "failed"}
  MaxClock = 3
INVARIANTS
  TerminalMatchesResult
  AcceptedBeforeExecution
  NoEarlyExpiry
  ResultIsShown
PROPERTIES
  DepartsOnlyByOverwriting
  ExecutingIsDecided

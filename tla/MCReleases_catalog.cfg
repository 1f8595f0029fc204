SPECIFICATION ReleasesSpec
CONSTANTS
  Versions <- SampleVersions
  Published <- SamplePublished
  Windows <- SampleWindows
  Refreshers = {"f1", "f2"}
  TTL = 1
  MaxPart = 2
  MaxParts = 2
  MaxClock = 2
  MaxRegistrations = 1
  MaxRefreshes = 2
INVARIANTS
  SupportIsSound
  AdviceIsSound
PROPERTIES
  CatalogMovesBackOnlyByRace
CHECK_DEADLOCK FALSE

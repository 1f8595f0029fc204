SPECIFICATION Spec
CONSTANTS
  c1 = c1
  c2 = c2
  c3 = c3
  k1 = k1
  h1 = h1
  h2 = h2
  None = None
  Candidates = {c1, c2, c3}
  Keys = {k1}
  KeyOf <- OneKey
  Handlers = {h1, h2}
  MaxAlerts = 2
SYMMETRY Symmetry
INVARIANTS
  OneActivePerKey
  OneOutcomePerCandidate
  IntakeDecides
PROPERTIES
  UndoneOnlyByRace

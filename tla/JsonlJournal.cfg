\* Two callers, four events, two restarts of any kind.
SPECIFICATION Spec
CONSTANTS
  c1 = c1
  c2 = c2
  None = None
  Callers = {c1, c2}
  MaxId = 4
  MaxStops = 2
INVARIANTS
  TypeOK
  LoadsCleanly
  CacheHonest
  AckedSurvive
PROPERTIES
  ReadsStable
SYMMETRY Symmetry
CHECK_DEADLOCK FALSE

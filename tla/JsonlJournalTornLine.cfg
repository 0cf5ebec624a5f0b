\* A write that stops right before its newline.
SPECIFICATION Spec
CONSTANTS
  c1 = c1
  c2 = c2
  None = None
  Callers = {c1, c2}
  MaxId = 4
  MaxStops = 2
INVARIANTS
  AckedSurviveTornLines
SYMMETRY Symmetry
CHECK_DEADLOCK FALSE

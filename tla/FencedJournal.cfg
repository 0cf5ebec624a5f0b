\* Two sessions, three runs, two of them of one worker.
SPECIFICATION Spec
CONSTANTS
  s1 = s1
  s2 = s2
  r1 = r1
  r2 = r2
  r3 = r3
  w1 = w1
  w2 = w2
  None = None
  Sessions = {s1, s2}
  Runs = {r1, r2, r3}
  Owners = {w1, w2}
  OwnerOf <- MCOwnerOf
  Durations = {1}
  MaxTime = 1
  MaxId = 4
INVARIANTS
  TypeOK
  ChainIntact
  TokensOrdered
  OneOwnerPerToken
  WriterKnewHistory
PROPERTIES
  OnlyNewestTokenAppends
  ImplementsEpochLog
CHECK_DEADLOCK FALSE
SYMMETRY Symmetry

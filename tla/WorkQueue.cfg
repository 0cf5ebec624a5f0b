\* Two items, two workers, stale and repeated acknowledgements, any clock.
SPECIFICATION Spec
CONSTANTS
  a = a
  b = b
  w1 = w1
  w2 = w2
  None = None
  Works = {a, b}
  Workers = {w1, w2}
  Item <- MCItem
  Capabilities <- MCCapabilities
  Kinds <- MCKinds
  Timeouts = {1}
  MaxTime = 3
INVARIANTS
  DeliveryBudget
  AcksAdvance
  DeadLetterJustified
PROPERTIES
  LiveLeaseKept
  TerminalIsFinal
  ImplementsDeliveries
CHECK_DEADLOCK FALSE

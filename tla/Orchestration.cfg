SPECIFICATION Spec
CONSTANTS
  d1 = d1
  d2 = d2
  k1 = k1
  x1 = x1
  v1 = v1
  v2 = v2
  None = None
  Parent = parent
  Child = child
  Configs = {k1}
  ConfigOf <- MCConfigOf
  Stamps = {1, 2}
  Texts = {t1}
  Results = {x1}
  Values = {v1, v2}
  ValueIn <- MCValueIn
  Dispatchers = {d1, d2}
  Completers = {w1}
  FairDispatcher = d1
  FairReceiver = r1
  Receivers = {r1, r2}
  Batch = 2
  MaxSends = 2
  MaxFaults = 2
INVARIANTS
  TypeOK
  ToldOnce
  DeliveredIsRecorded
  AcceptedSurvive
  WorkIsRunnable
PROPERTIES
  EventuallyDelivered
  EventuallyDispatched
CHECK_DEADLOCK FALSE

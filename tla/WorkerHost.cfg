\* Two hosts contend for one item; crashes and stalls without bound.
SPECIFICATION HostSpec
CONSTANTS
  a = a
  w1 = w1
  h1 = h1
  h2 = h2
  None = None
  Works = {a}
  Workers = {w1}
  Item <- MCItem
  Capabilities <- MCCapabilities
  Kinds <- MCKinds
  Timeouts = {1}
  Hosts = {h1, h2}
  WorkerOf <- MCWorkerOf
  Timeout = 1
  Delays = {1}
  MaxBeats = 1
  MaxTime = 14
INVARIANTS
  HostTypeOK
  DeliveriesDistinct
PROPERTIES
  CompletionIsOwn
  EventuallyTerminal
CHECK_DEADLOCK FALSE

\* A host whose lease was superseded resolves its delivery as cancelled.
SPECIFICATION HostSafetySpec
CONSTANTS
  a = a
  w1 = w1
  h1 = h1
  h2 = h2
  None = None
  Works = {a}
  Workers = {w1}
  Item <- MCItem
  Capabilities <- MCCapabilities
  Kinds <- MCKinds
  Timeouts = {1}
  Hosts = {h1, h2}
  WorkerOf <- MCWorkerOf
  Timeout = 1
  Delays = {1}
  MaxBeats = 1
  MaxTime = 14
PROPERTIES
  StaleHostSparesDelivery
CHECK_DEADLOCK FALSE

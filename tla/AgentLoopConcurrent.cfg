\* Two processes run the session at once, beside another writer.
SPECIFICATION Spec
CONSTANTS
  c2 = c2
  p1 = p1
  p2 = p2
  c1 = c1
  m1 = m1
  m2 = m2
  None = None
  Procs = {p1, p2}
  Calls = {c1}
  FreshCalls = TRUE
  Width = 1
  FinalStops = {"end"}
  Receipts = {"succeeded", "pending"}
  Mails = {m1}
  Limit = 2
  Batch = 1
  Aborts = FALSE
  MaxEvents = 9
  MaxStarts = 3
  MaxForeign = 1
INVARIANT
  ConcurrentSafety
SYMMETRY Symmetry
CHECK_DEADLOCK FALSE

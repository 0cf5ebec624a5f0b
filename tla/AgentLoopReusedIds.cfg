\* A provider that uses one call id in two answers.
SPECIFICATION Spec
CONSTANTS
  p1 = p1
  p2 = p2
  c1 = c1
  c2 = c2
  m1 = m1
  m2 = m2
  None = None
  Procs = {p1}
  Calls = {c1}
  FreshCalls = FALSE
  Width = 2
  FinalStops = {"end", "length", "error", "aborted"}
  Receipts = {"succeeded", "failed", "unknown"}
  Mails = {}
  Limit = 2
  Batch = 1
  Aborts = TRUE
  MaxEvents = 14
  MaxStarts = 3
  MaxForeign = 0
INVARIANTS
  JournaledCallsStart
CHECK_DEADLOCK FALSE

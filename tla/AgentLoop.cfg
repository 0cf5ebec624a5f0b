\* One process that crashes and restarts; two parallel calls, one message.
SPECIFICATION Spec
CONSTANTS
  p1 = p1
  p2 = p2
  c1 = c1
  c2 = c2
  m1 = m1
  m2 = m2
  None = None
  Procs = {p1}
  Calls = {c1, c2}
  FreshCalls = TRUE
  Width = 2
  FinalStops = {"end", "length", "error", "aborted"}
  Receipts = {"succeeded", "failed", "unknown"}
  Mails = {m1, m2}
  Limit = 2
  Batch = 2
  Aborts = TRUE
  MaxEvents = 12
  MaxStarts = 3
  MaxForeign = 0
INVARIANTS
  TypeOK
  EffectsAtMostOnce
  ModelSeesClosedActions
  FinishedTurnNotReinvoked
  CompletedIsEarned
  MailOnce
SYMMETRY Symmetry
CHECK_DEADLOCK FALSE

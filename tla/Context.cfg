SPECIFICATION Spec
CONSTANTS
  None = None
  Depth = 2
  MaxEvents <- MCMaxEvents
  MaxAnswers = 2
  Inputs <- MCInputs
  Summary <- MCSummary
  Pending <- MCPending
  Settled <- MCSettled
  Whole <- MCWhole
  Streamed <- MCStreamed
INVARIANTS
  StreamedAsWhole
  CallsKeepResults
  EncodedFaithfully
PROPERTY
  ContextsAdvance
CHECK_DEADLOCK FALSE

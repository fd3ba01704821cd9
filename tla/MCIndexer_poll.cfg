\* Contexts are shared or not, a page may be too short, and reads may give null.
SPECIFICATION Spec
CONSTANTS
  Rows = {a}
  Others = {x}
  NoTx = NoTx
  Contexts <- MCContexts
  Pollers = {p1, p2}
  PageLimit = 1
  MissingReads = TRUE
  MaxFaults = 1
INVARIANTS
  IndexerTypeOK
  ConfirmedByItsContext
  BehindCursorConfirmed
PROPERTIES
  EventuallyConfirmed
CHECK_DEADLOCK FALSE

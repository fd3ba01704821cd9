\* Two requests and a poller; two calls fail or the process restarts.
SPECIFICATION FairSpec
CONSTANTS
  Slots = {v}
  Tokens = {v}
  Jobs = {h1, h2}
  Pollers = {p1}
  Deposits = {1}
  MaxVaults = 1
  MaxFaults = 2
  MaxPays = 1
  MaxFunds = 1
INVARIANTS
  KeyOfEveryVault
  OrphansHoldNothing
  AuditNeverOverstates
  AnswerShowsOwnChange
PROPERTIES
  EventuallyCurrent
CHECK_DEADLOCK FALSE

\* A SOL vault: budget, window and clock (lists are exercised by the custody run).
SPECIFICATION Spec
CONSTANTS
  NoKey = NoKey
  NoVault = NoVault
  Native = SOL
  Keys = {k1}
  Recipients = {r1}
  Mints = {}
  Contexts = {c1}
  U64Max = 5
  WINDOW_SECONDS = 2
  MAX_LIST_LEN = 0
  Rent = 1
  Endowment <- MCSolEndowment
  Amounts = {1, 2}
  PerTxLimits = {2}
  DailyLimits = {1, 2}
  Thresholds = {2}
  MaxNow = 4
  MaxPayments = 3
  MaxArms = 2
INVARIANTS
  TypeOK
  SpentIsWindowTotal
  TotalMatchesHistory
  RollingBudget
  MirrorAgrees
CHECK_DEADLOCK FALSE

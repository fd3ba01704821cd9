\* Has a REVERTED payment moved nothing?
SPECIFICATION PaymentsSpec
CONSTANTS
  NoKey = NoKey
  NoVault = NoVault
  Native = SOL
  Keys = {k1}
  AgentKey = k1
  Recipients = {r1}
  Mints = {}
  VaultMint = SOL
  Contexts = {c1}
  U64Max = 8
  WINDOW_SECONDS = 1
  MAX_LIST_LEN = 1
  Rent = 1
  Endowment <- MCEndowment
  InitialVaults <- MCVaults
  InitialHeld <- MCHeld
  Amounts = {1, 2}
  PerTxLimits = {2}
  DailyLimits = {4}
  Thresholds = {2}
  MaxNow = 1
  MaxPayments = 3
  MaxArms = 2
  Requests = {h1}
  Ids = {p}
  ENFORCE_ONCHAIN_REVERTS = TRUE
  Serial = TRUE
  RpcFaults = FALSE
  DbFaults = FALSE
  ClockSkew = 0
  MaxChainSteps = 2
  MaxCrashes = 0
INVARIANTS
  RevertedMovedNothing
CHECK_DEADLOCK FALSE

\* The owner decides once at a time; RPC calls fail.
SPECIFICATION PaymentsSpec
CONSTANTS
  NoKey = NoKey
  NoVault = NoVault
  Native = SOL
  Keys = {k1}
  AgentKey = k1
  Recipients = {r1}
  Mints = {usdc}
  VaultMint = usdc
  Contexts = {c1}
  U64Max = 8
  WINDOW_SECONDS = 1
  MAX_LIST_LEN = 1
  Rent = 1
  Endowment <- MCEndowment
  InitialVaults <- MCVaults
  InitialHeld <- MCHeld
  Amounts = {1, 2}
  PerTxLimits = {2}
  DailyLimits = {4}
  Thresholds = {2}
  MaxNow = 1
  MaxPayments = 3
  MaxArms = 2
  Requests = {h1, h2, h3}
  Ids = {p}
  ENFORCE_ONCHAIN_REVERTS = TRUE
  Serial = TRUE
  RpcFaults = TRUE
  DbFaults = FALSE
  ClockSkew = 1
  MaxChainSteps = 2
  MaxCrashes = 0
SYMMETRY RequestSymmetry
INVARIANTS
  PaymentsTypeOK
  AtMostOncePaid
  AuditTellsOneStory
PROPERTIES
  KeepsPromise
CHECK_DEADLOCK FALSE

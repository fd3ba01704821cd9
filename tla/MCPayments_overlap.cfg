\* Requests overlap freely, RPC calls and writes to the database fail, the backend restarts.
SPECIFICATION PaymentsSpec
CONSTANTS
  NoKey = NoKey
  NoVault = NoVault
  Native = SOL
  Keys = {k1}
  AgentKey = k1
  Recipients = {r1}
  Mints = {}
  VaultMint = SOL
  Contexts = {c1}
  U64Max = 8
  WINDOW_SECONDS = 1
  MAX_LIST_LEN = 1
  Rent = 1
  Endowment <- MCEndowment
  InitialVaults <- MCVaults
  InitialHeld <- MCHeld
  Amounts = {1, 2}
  PerTxLimits = {2}
  DailyLimits = {4}
  Thresholds = {2}
  MaxNow = 1
  MaxPayments = 3
  MaxArms = 2
  Requests = {h1, h2, h3}
  Ids = {p}
  ENFORCE_ONCHAIN_REVERTS = TRUE
  Serial = FALSE
  RpcFaults = TRUE
  DbFaults = TRUE
  ClockSkew = 1
  MaxChainSteps = 1
  MaxCrashes = 1
SYMMETRY RequestSymmetry
INVARIANTS
  AtMostOneCreateSubmission
  LedgerNeverOverstates
  DeniedPaidOnlyByApproval
PROPERTIES
  FinalUnlessContested
CHECK_DEADLOCK FALSE

\* Vaults of SOL, of an SPL mint and with a foreign mint around: custody.
SPECIFICATION Spec
CONSTANTS
  NoKey = NoKey
  NoVault = NoVault
  Native = SOL
  Keys = {k1}
  Recipients = {r1}
  Mints = {usdc, other}
  Contexts = {c1}
  U64Max = 3
  WINDOW_SECONDS = 1
  MAX_LIST_LEN = 1
  Rent = 1
  Endowment <- MCSplEndowment
  Amounts = {0, 1}
  PerTxLimits = {1}
  DailyLimits = {1}
  Thresholds = {1}
  MaxNow = 1
  MaxPayments = 1
  MaxArms = 2
INVARIANTS
  Conservation
  RentExempt
PROPERTIES
  OnlyOwnerOrBudget
  ImplementsEscrow
CHECK_DEADLOCK FALSE

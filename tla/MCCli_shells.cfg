\* Four commands that overlap, two vault ids, two faults.
SPECIFICATION Spec
CONSTANTS
  v1 = v1
  v2 = v2
  Slots = {v1, v2}
  FeeOf <- MCFees
  Shells = {h1, h2, h3, h4}
  NoCfg = none
  Torn = torn
  Values = {2}
  Default = 1
  MaxFunds = 1
  MaxFaults = 2
SYMMETRY CliSymmetry
INVARIANTS
  SavedVaultIsReady
  FundedVaultsAreNamed
PROPERTIES
  UnnamedLimitsKept
CHECK_DEADLOCK FALSE

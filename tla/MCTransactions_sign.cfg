\* Two transactions in flight, every signer, every alias of the keys.
SPECIFICATION Spec
CONSTANTS
  OwnerKey = o
  Stranger = x
  a1 = a1
  a2 = a2
  Agents = {a1, a2, o}
  Shop = s
  TheVault = v
  Typed <- TypedNearGrid
  CosignAt = 2
  MaxFunds = 2
  MaxFlight = 2
SYMMETRY AgentSymmetry
INVARIANTS
  OnlyForeignCosignerThrows
  CosignSpendsNothingElse
  AmountAsTyped
PROPERTIES
  PaymentsAuthorized
  OnlyOwnerChangesVault
CHECK_DEADLOCK FALSE

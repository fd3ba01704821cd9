\* One at a time of an agent, a shopper that repeats its call, a tool and two wallets.
SPECIFICATION FairSpec
CONSTANTS
  Agents = {a}
  Shoppers = {s}
  Tools = {t}
  Terminals = {w}
  Desktops = {d}
  Plans <- SomePlans
  Items <- OneItem
  Decisions = {o1, o2}
  MaxActive = 1
  MaxCalls = 2
  MaxRestarts = 1
INVARIANTS
  NamedPurchasePaidOnce
  ReportIsPaid
  RevokedCreatesNothing
PROPERTIES
  ToldVerdictStands
  AgentWorksThrough
CHECK_DEADLOCK FALSE

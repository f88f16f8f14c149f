CONSTANTS
  md = md
  td = td
  s1 = s1
  Routes <- MCRoutes
  RouteOrder <- MCOrder
  Market = md
  Symbols <- MCSymbols
  PollBudget = 3
  MaxBackoff = 360
  Policies <- MCPolicies
  NoLimit = NoLimit
  Idle = Idle
  MaxCommands = 3
  MaxLosses = 2
SPECIFICATION LinkSpec
INVARIANTS
  RepairIsComplete
  MarketIsPeeked
PROPERTIES
  Reconnects

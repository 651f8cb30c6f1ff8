SPECIFICATION TradingSpec
CONSTANTS
  Address = {a0, a1, a2}
  ZeroAddress = a0
  Deployer = a1
  FirstAgent = a2
  Amounts <- MCAmounts
  Defaults <- MCDefaults
  Policies <- MCPolicies
  DaySec = 3
  StartTime = 1
  MaxUint = 7
  MaxTime = 7
  MaxTrades = 3
  Tokens <- MCTokens
  Cooldowns = {1, 2}
  OnChain = TRUE
  MaxTicks = 2
  MaxFaults = 1
INVARIANTS IInv DailyCap NeverLockedOut SignalsSpaced AuditTrail ExecutorInv
PROPERTIES ImplementsLimiter SignalComes

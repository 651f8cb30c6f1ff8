SPECIFICATION Spec
CONSTANTS
  Rows <- MCRows
  ChainOf <- MCChainOf
  Chains = {1, 56}
  Stored <- MCStored
  Quoted = {"usdc"}
  Illiquid = {"usdcBsc"}
  Limit = 2
  MaxStubs = 1
  MaxFaults = 1
  SymbolOf <- MCSymbolOf
  Described = {"usdcBsc"}
  Holdings = {"usdcBsc"}
  Changes <- MCChanges
  Requests = {1, 2}
  AskedKeys = {"USDC"}
  AskedRows = {"usdcBsc"}
  Unknown = "UNKNOWN"
INVARIANTS ChoiceHolds ReadersAgree
PROPERTIES DefaultsAreImplicit EveryRowRefreshed SettledSymbolStays

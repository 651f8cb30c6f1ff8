SPECIFICATION Spec
CONSTANTS
  StoredRules <- MCStoredRules
  StoredFilters <- MCStoredFilters
  NewRules = {"r3"}
  Conditions <- MCConditions
  Blocks <- MCBlocks
  Tokens = {"usdt", "mnt", "pepe", "dai"}
  Stable = {"usdt", "dai"}
  Watched = "r1"
  PageLen = 2
  MaxBlocks = 1
  MaxEdits = 0
  MaxPolls = 2
  MaxFaults = 0
PROPERTY GasAlerted

CONSTANTS
  Chains = {eth, mantle}
  ChanCap = 1
  MaxFetchFailures = 2
  Lag = 1
  MaxBlock = 3
  MaxRestarts = 1
SPECIFICATION Spec
INVARIANTS IngestInv SkippedOnlyAfterFailures
PROPERTIES EveryBlockHandled

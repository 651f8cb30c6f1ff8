SPECIFICATION OptimizerSpec
CONSTANTS
  Prices = {10, 20, 40}
  Volumes = {1, 2}
  Grid <- MCGrid
  MinHours = 3
  MinTrades = 2
  RowLimit = 5
  MaxHours = 5
INVARIANT WinnerStored

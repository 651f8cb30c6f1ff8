SPECIFICATION AnalyticsSpec
CONSTANTS
  HoursPerDay = 2
  LagHours = 1
  DaysBack = 1
  MaxHour = 2
  MaxPerHour = 2
  Prices = {10, 20, 40}
  Volumes = {1, 2}
  Grid <- MCGrid
  MinHours = 3
  MinTrades = 2
  RowLimit = 5
  MaxHours = 5
INVARIANTS RollupInv BacktestInv AverageInv
PROPERTIES DailyNeverShrinks HourMaterialized DailyCatchesUp

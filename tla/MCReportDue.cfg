SPECIFICATION AlertsSpec
CONSTANTS
  Portfolios = {"p1"}
  Holds <- MCHolds
  Profile <- MCProfile
  ReportsOn = {"p1"}
  Transactions <- ReportTransactions
  StrictMode = TRUE
  Cooldown = 2
  KeepFor = 2
  ReportWindow = 1
  DayLen = 2
  MaxDelay = 1
  MaxTime = 3
  MaxTxs = 3
  MaxFailures = 0
  MaxRestarts = 0
PROPERTY DueReportWritten

SPECIFICATION AlertsSpec
CONSTANTS
  Portfolios = {"p1", "p2"}
  Holds <- MCHolds
  Profile <- MCProfile
  ReportsOn = {"p1"}
  Transactions <- AllTransactions
  StrictMode = FALSE
  Cooldown = 2
  KeepFor = 2
  ReportWindow = 1
  DayLen = 2
  MaxDelay = 1
  MaxTime = 3
  MaxTxs = 2
  MaxFailures = 1
  MaxRestarts = 1
INVARIANT GateInv
PROPERTIES QualifiedIsAnswered

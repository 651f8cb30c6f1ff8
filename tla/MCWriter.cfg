SPECIFICATION Spec
CONSTANTS
  Hours = {10}
  ChanCap = 1
  BatchLimit = 2
  FlushAt = 3
  MaxTransfers = 4
  MaxEvents = 6
  MaxDoubtful = 1
  MaxErrors = 1
  MaxRestarts = 1
INVARIANTS WriterInv StoredAsSent ActivityMatchesSent
PROPERTIES ImplementsLog EventuallyStored AnalysisResumes

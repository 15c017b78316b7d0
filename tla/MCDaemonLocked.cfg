SPECIFICATION DaemonSpec
CONSTANTS
  MaxJobs = 1
  MaxAttempts = 2
  QueueCap = 1
  MaxCopies = 1
  MaxRetries = 1
  RetryFrom = {"failed", "retry_wait"}
  MaxCrashes = 1
  MaxStops = 0
  MaxStopCalls = 1
  Commands = {"delete","correct","copy","learn"}
  HistoryFrom = {"queued","transcribing","cleaning","formatting","delivering","retry_wait","delivered","failed","cancelled"}
INVARIANTS
  CorrectionSeesLatest
PROPERTIES
  DeletedStays
  KeepsPromise
CHECK_DEADLOCK FALSE

SPECIFICATION DaemonSpec
CONSTANTS
  MaxJobs = 1
  MaxAttempts = 1
  QueueCap = 1
  MaxCopies = 0
  MaxRetries = 0
  RetryFrom = {"failed", "retry_wait"}
  MaxCrashes = 1
  MaxStops = 0
  MaxStopCalls = 1
  Commands = {"feedback"}
  HistoryFrom = {"queued","transcribing","cleaning","formatting","delivering","retry_wait","delivered","failed","cancelled"}
INVARIANT InsertedOnce
CHECK_DEADLOCK FALSE

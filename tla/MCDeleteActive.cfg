SPECIFICATION DaemonSpec
CONSTANTS
  MaxJobs = 1
  MaxAttempts = 1
  QueueCap = 1
  MaxCopies = 1
  MaxRetries = 0
  RetryFrom = {"failed", "retry_wait"}
  MaxCrashes = 0
  MaxStops = 0
  MaxStopCalls = 1
  Commands = {"delete"}
  HistoryFrom = {"recording","failed","delivered"}
PROPERTY ActiveNotDeleted
CHECK_DEADLOCK FALSE

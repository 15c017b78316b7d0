SPECIFICATION DaemonSpec
CONSTANTS
  MaxJobs = 1
  MaxAttempts = 1
  QueueCap = 1
  MaxCopies = 1
  MaxRetries = 1
  RetryFrom = {"failed", "retry_wait"}
  MaxCrashes = 0
  MaxStops = 0
  MaxStopCalls = 1
  Commands = {"dismiss","delete","correct","feedback","copy","learn","cleanup"}
  HistoryFrom = {"transcribing","cleaning","formatting","delivering","retry_wait","delivered","failed","cancelled"}
INVARIANTS
  DaemonTypeOK
  DeliveredWasTyped
  SpokenWordsKept
CHECK_DEADLOCK FALSE

SPECIFICATION FairSpec
CONSTANTS
  MaxJobs = 1
  MaxAttempts = 2
  QueueCap = 1
  MaxCopies = 1
  MaxRetries = 1
  RetryFrom = {"failed", "retry_wait"}
  MaxCrashes = 1
  MaxStops = 1
  MaxStopCalls = 1
INVARIANT
  SpokenWordsKept
PROPERTIES
  StoppedDictationSettles
  SilenceEndsRecording
CHECK_DEADLOCK FALSE

SPECIFICATION Spec
CONSTANTS
  MaxJobs = 2
  MaxAttempts = 1
  QueueCap = 2
  MaxCopies = 1
  MaxRetries = 0
  RetryFrom = {"failed", "retry_wait"}
  MaxCrashes = 0
  MaxStops = 0
  MaxStopCalls = 1
INVARIANTS
  NoOrphanRecording
  MicOwned
  ListeningMeansRecording
PROPERTY
  OneFinalizer
CHECK_DEADLOCK FALSE

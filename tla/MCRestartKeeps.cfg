SPECIFICATION PipelineSpec
CONSTANTS
  MaxJobs = 1
  MaxAttempts = 2
  QueueCap = 1
  MaxCopies = 2
  MaxRetries = 0
  RetryFrom = {"queued","transcribing","cleaning","formatting","delivering","retry_wait","failed","cancelled"}
  MaxCrashes = 0
  MaxStops = 1
CHECK_DEADLOCK FALSE
PROPERTY RestartKeepsDictation

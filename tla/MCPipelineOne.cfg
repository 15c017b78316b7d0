SPECIFICATION FairPipelineSpec
CONSTANTS
  MaxJobs = 1
  MaxAttempts = 2
  QueueCap = 1
  MaxCopies = 2
  MaxRetries = 1
  RetryFrom = {"queued","transcribing","cleaning","formatting","delivering","retry_wait","failed","cancelled"}
  MaxCrashes = 2
  MaxStops = 1
INVARIANTS
  TypeOK
  InsertedOnce
  DeliveredWasTyped
PROPERTIES
  FinishedStays
  KeepsPromise
  EveryDictationSettles
CHECK_DEADLOCK FALSE

SPECIFICATION BackgroundSpec
CONSTANTS
  ChannelCap = 1
  MaxChunks = 4
  MaxUnasked = 3
  MaxErrors = 1
  MaxEvents = 3
  MaxLostAcks = 1
  MaxCrashes = 2
  MaxUnremoved = 1
INVARIANTS
  RealtimeTypeOK
  NoGapInTranscript
  TranscriptComplete
  SinkTypeOK
  ExportedOrKept
  InOrder
  NoLostWakeup
  DuplicatesExplained
PROPERTIES
  CommitReturns
  CaptureReleased
  ReaderReleased
CHECK_DEADLOCK FALSE

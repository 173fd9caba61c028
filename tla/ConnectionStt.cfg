SPECIFICATION FairConnection
CONSTANTS
  MaxJobs = 2
  CancelMayBeLost = TRUE
  FrameSize = 1
  PrimeCap = 0
  MaxSamples = 1
  MaxSttSessions = 1
  MaxSounds = 1
  MaxFlushes = 1
  MaxSaid = 0
CHECK_DEADLOCK FALSE
PROPERTIES
  FailureEndsChannel

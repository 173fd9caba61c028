SPECIFICATION FairConnection
CONSTANTS
  MaxJobs = 4
  CancelMayBeLost = TRUE
  FrameSize = 2
  PrimeCap = 2
  MaxSamples = 5
  MaxSttSessions = 2
  MaxSounds = 2
  MaxFlushes = 2
  MaxSaid = 3
CHECK_DEADLOCK FALSE
INVARIANTS
  NoWorkAfterRelease
  OwnTranscript
  NoDanglingSocket
PROPERTIES
  SlotIsFreed
  FlushIsComplete
  SttCallsReturn

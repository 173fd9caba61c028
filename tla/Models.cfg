SPECIFICATION Spec
CONSTANTS
  Rows = {0, 1}
  Delay = 1
  Prepend = 1
  MaxSession = 2
  MaxSteps = 4
  Lookahead = 1
  DelaySteps = 2
  FinalPadding = 0
  MaxPadding = 1
  Interleaved = 1
  MaxEntries = 2
  MaxChannels = 2
  AsrDelay = 1
  MaxAudio = 2
  MaxListeners = 2
  BatchRows = {1, 2}
  Pool = 3
  MaxTokens = 7
  MaxSpeakers = 2
  DepQ = 2
  MaxFrames = 3
  MaxLag = 2
  WaitSteps = 1
  MaxElapsed = 2
  MaxRagTokens = 3
  Files = {f1, f2}
CHECK_DEADLOCK FALSE
INVARIANTS
  StreamIsSound
  ServedTheirOwn
  ConditionsAreOwn
  JobsAreSound
PROPERTIES
  EveryoneIsAnswered
  FilesFinish

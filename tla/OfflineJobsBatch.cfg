SPECIFICATION JobSpec
CONSTANTS
  Occupants = {o1, o2}
  BatchSize = 2
  MaxFrames = 5
  MaxDelay = 1
  RefLen = 1
  JobSteps = 3
  WaitSteps = 0
  MaxElapsed = 0
  MaxRagTokens = 0
CHECK_DEADLOCK FALSE
PROPERTY JobsFinish

SPECIFICATION Spec
CONSTANTS
  MaxJobs = 3
  MaxSeq = 3
  MaxTurn = 1
  WaitSteps = 2
  MaxShots = 2
  CancelMayBeLost = TRUE
PROPERTY SupersededTurnDropped

SPECIFICATION FairSpec
CONSTANTS
  MaxJobs = 3
  MaxSeq = 3
  MaxTurn = 1
  WaitSteps = 2
  MaxShots = 1
  CancelMayBeLost = FALSE
INVARIANT OneRetrieval
PROPERTIES
  EveryJobSettles
  OutputLoopResumes

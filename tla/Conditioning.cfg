SPECIFICATION Spec
CONSTANTS
  MaxJobs = 3
  MaxSeq = 4
  MaxTurn = 2
  WaitSteps = 2
  MaxShots = 2
  CancelMayBeLost = TRUE
INVARIANTS
  OneConfirmed
  NoLostWakeup
  RearmedIsClear
  AdoptedOnce
PROPERTIES
  OnlyNewestShown

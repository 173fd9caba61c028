SPECIFICATION FairSession
CONSTANTS
  Convs = {c1}
  Services = {s1}
  MaxTasks = 3
  MaxTurn = 1
  Threshold = 2
  Cooldown = 1
  Urgencies = {"critical","background"}
  Cancels = {"one","stale","all"}
  CancelMayBeLost = TRUE
  ForgetAnytime = FALSE
  MaxWords = 3
  VadLevels = {0, 2, 3}
  VadThreshold = 2
  WindowSize = 2
  WarmupSteps = 3
  SttWaitSteps = 2
  BargeWords = 1
  VoiceFrames = 2
CHECK_DEADLOCK FALSE
INVARIANTS
  OpenIffFailing
  LiveIsCurrent
  InOrder
PROPERTIES
  NewestTurnOnly
  CooldownHolds
  DeadlineSettles
  NeverEmptyHanded
  PendingIsHonoured
  UserGetsFloor

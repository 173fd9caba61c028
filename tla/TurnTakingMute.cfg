SPECIFICATION Spec
CONSTANTS
  MaxWords = 3
  VadLevels = {0, 2, 3}
  VadThreshold = 2
  WindowSize = 2
  WarmupSteps = 3
  SttWaitSteps = 2
  BargeWords = 1
  VoiceFrames = 2
PROPERTY FreshResponseAudible

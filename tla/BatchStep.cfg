SPECIFICATION BatchSpec
CONSTANTS
  DemucsDepth = 2
  DemucsStride = 2
  DemucsAhead = 1
  MaxFeeds = 4
  MaxFed = 7
  Occupants = {o1, o2, o3}
  BatchSize = 2
  MaxFrames = 3
  MaxDelay = 1
  RefLen = 2
  Rows = {a, b}
  Capacity = 3
  MaxSession = 2
  MaxCodecFrames = 3
  Delay = 1
  NSemantic = 1
  NAcoustic = 2
  Bins = 2
  MaxCentroid = 1
  MaxLatent = 3
SYMMETRY Symmetry
CHECK_DEADLOCK FALSE
INVARIANTS
  TokensAreOwn
  NeverUngenerated
  ConditionIsOwn
  BoundedLoss
  InStep
  CodecIsSound
  CodesAreSound

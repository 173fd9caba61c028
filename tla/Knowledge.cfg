SPECIFICATION Spec
CONSTANTS
  Ids = {m1, m2}
  Threads = 1
  LlmTimeout = 1
  MaxRetrievals = 2
  MaxElapsed = 2
  Values = {v1, v2}
  MaxConversations = 2
  MaxCommits = 2
  EpisodeLimit = 1
  SalienceThreshold = 5
  Durable = TRUE
  MaxTurns = 2
  MaxTurnChars = 3
  MaxAdded = 4
  MaxChars = 4
  MaxLength = 5
  SureLength = 2
  RagTimeout = 1
  MaxCandidates = 3
  MaxLines = 5
  MaxShots = 2
SYMMETRY Symmetry
CHECK_DEADLOCK FALSE
INVARIANTS
  SourceIsTold
  ReturnsInTime
  MemoryIsSound
  PromptIsSound

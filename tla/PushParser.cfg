SPECIFICATION PushSpec
CONSTANTS
  Docs <- MCDocs
  StopAts = {0, 3}
  StartSize = 2
  BigBuffer = 3
  EmptyChunks = FALSE
  MaxTokens = 3
INVARIANTS
  PushMatchesPull
  NothingPremature
PROPERTIES
  ChunkReturns
CHECK_DEADLOCK FALSE

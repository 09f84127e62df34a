SPECIFICATION PushSpec
CONSTANTS
  Docs <- MCTextDocs
  StopAts = {0}
  StartSize = 2
  BigBuffer = 3
  EmptyChunks = TRUE
  MaxTokens = 3
CHECK_DEADLOCK FALSE
INVARIANTS
  NewlinesNormalised

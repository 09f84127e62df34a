SPECIFICATION PushSpec
CONSTANTS
  Docs <- MCNsDocs
  StopAts = {0}
  StartSize = 2
  BigBuffer = 3
  EmptyChunks = FALSE
  MaxTokens = 2
CHECK_DEADLOCK FALSE
INVARIANTS
  WellFormedIsWhole

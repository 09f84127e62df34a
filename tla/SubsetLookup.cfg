SPECIFICATION ChunkSpec
CONSTANTS
  Texts = {}
  Subsets <- MCPiSubsets
  BigBuffer = 4
  MaxPieces = 4
INVARIANTS
  SubsetAvailable
CHECK_DEADLOCK FALSE

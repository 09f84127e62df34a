SPECIFICATION MCSpec
CONSTANTS
  TrHeap = 6
  TrDocs <- MCTrees
  TrNames = {x, y}
  TrQuotas <- MCQuotas
  WrNames = {x, y}
  WrPrefixes = {p}
  WrUris = {x, y}
  WrMaxDepth = 3
  WrMaxDecls = 2
  RdDocs <- MCDocuments
  RdMaxExtra = 2
  PtPatterns <- MCPatterns
  PtElements <- MCElements
  PtMaxDepth = 3
  CatThreads = {t1, t2}
  CatSetups <- MCSetups
  CatUnreadable <- CatNone
  CatMaxDepth = 2
  CatMaxDelegate = 2
INVARIANTS
  TrLinked
  WrOutputInStep
  WrEndDocumentEnds
  RdInOrder
  RdMemory
  PtStreamExact
  PtTreeExact
  CatResolveExact
  CatParsedOnce
  CatLoopGuard
PROPERTIES
  TrTextKept
CHECK_DEADLOCK FALSE

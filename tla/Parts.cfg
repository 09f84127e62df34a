SPECIFICATION MCSpec
CONSTANTS
  Keys = {1, 2, 3, 4}
  NoKey = 0
  Payloads = {NoData, p1}
  NoData = NoData
  HashValues = {0, 2, 3, 7}
  Reseeds <- MCReseeds
  MinSize = 4
  MaxSize = 8
  FillNum = 3
  FillDenom = 4
  CreateSizes = {0, 5}
  Copiers <- MCCopiers
  WarnDefaults = {TRUE}
  Texts <- MCTexts
  Subsets <- MCSubsets
  BigBuffer = 4
  MaxPieces = 4
  nsD = nsD
  nsP = nsP
  nsQ = nsQ
  nsU = nsU
  NsPrefixes = {nsD, nsP, nsQ}
  NsDefault = nsD
  NsUris = {nsU}
  NsHashes <- MCHashes
  NsDecls <- MCDecls
  NsInitSize = 2
  NsMaxElementId = 2
  NsMaxDepth = 2
  StTags <- MCTags
  StNoPrefix = "none"
  StNoUri = "-"
  entA = entA
  entB = entB
  entC = entC
  Ents = {entA, entB, entC}
  EntDoc = EntDoc
  EntBodies <- MCBodies
  EntExternal = {entC}
  EntMaxDepth = 4
  EntAllowed = 8
  EntFixed = 1
  EntMaxAmpl = 2
  EntPrologue = 3
  EntDocLen = 5
  SxEnts <- MCBuilt
  SxLens = {1, 2}
  SxMaxText = 3
  SxMinCap = 4
  SxMaxKids = 3
  SxMaxDepth = 3
  Ctxts = {c1}
  Errors <- MCRingErrors
  NoError <- MCNoError
  MaxErrors = 1
  DedupSize = 1
  RingSizes = {0, 1, 2}
  DedupLimits = {0, 1}
  AllocFails = {"entry", "dedup", "raise"}
INVARIANTS
  EveryKeyFound
  ScanOnce
  CopyFaithful
  LookupExact
  ResumesNearEnd
  NsProbesEnd
  AttributesUnique
  EntNoReentry
  EntMarksCleared
  EntAmplification
  EntLoopsRejected
  SxCacheRight
  EntriesUseful
  RingShape
PROPERTIES
  ImplementsHashMap
  ImplementsErrorLog
  ImplementsNsIndex
CHECK_DEADLOCK FALSE

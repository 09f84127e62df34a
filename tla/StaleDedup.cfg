SPECIFICATION RingSpec
CONSTANTS
  Ctxts = {c1}
  Errors <- MCErrors
  NoError <- MCNoError
  MaxErrors = 1
  DedupSize = 2
  RingSizes = {0}
  DedupLimits = {0, 2}
  AllocFails = {"entry", "dedup", "raise"}
  WarnDefaults = {TRUE}
INVARIANTS
  PerContextDedup

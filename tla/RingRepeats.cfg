SPECIFICATION RingSpec
CONSTANTS
  Ctxts = {c1}
  Errors <- MCRingErrors
  NoError <- MCNoError
  MaxErrors = 1
  DedupSize = 1
  RingSizes = {0, 2}
  DedupLimits = {0, 1}
  AllocFails = {"entry", "dedup", "raise"}
  WarnDefaults = {FALSE}
PROPERTIES
  ImplementsErrorLog

SPECIFICATION MCSpec
CONSTANTS
  Threads = {t1, t2, t3}
  NoThread = NoThread
  MaxDepth = 2
  Dicts = {d1, d2, d3}
  Handles = {h1, h2, h3}
  DictThreads = {t1, t2}
  Strings = {s1, s2}
  NoDict = NoDict
  Ctxts = {c1}
  Errors <- MCErrors
  NoError <- MCNoError
  MaxErrors = 1
  DedupSize = 2
  RingSizes = {0}
  DedupLimits = {0, 2}
  AllocFails = {"entry", "dedup", "raise"}
  WarnDefaults = {TRUE}
INVARIANTS
  MutualExclusion
  NoLostWakeup
  RefCountExact
  FreedOnce
  RepeatsSuppressed
  FatalNeverLost
PROPERTIES
  WaitersProgress
  InternStable
  NoLeak

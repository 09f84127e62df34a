SPECIFICATION StSpec
CONSTANTS
  StTags <- MCPlainTags
  StNoPrefix = "none"
  StNoUri = "-"
INVARIANTS
  UniqueAttSpec
CHECK_DEADLOCK FALSE

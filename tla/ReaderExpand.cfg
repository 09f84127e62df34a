SPECIFICATION RdSpec
CONSTANTS
  RdDocs <- MCDocuments
  RdMaxExtra = 2
INVARIANTS
  RdAllReported
CHECK_DEADLOCK FALSE

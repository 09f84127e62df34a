SPECIFICATION TrSpec
CONSTANTS
  TrHeap = 6
  TrDocs <- MCTrees
  TrNames = {x, y}
  TrQuotas <- MCParameter
INVARIANTS
  TrEntityTables
CHECK_DEADLOCK FALSE

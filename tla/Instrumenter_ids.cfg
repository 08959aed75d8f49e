CONSTANTS
  Modules <- MCModules
  targetFunc = "reach_error"
SPECIFICATION Spec
CHECK_DEADLOCK FALSE
INVARIANTS
  TypeOK
  BranchIdsAreDense
  GoalIdsAreDense
  ReachableIsKept
  ErrorIsProbed

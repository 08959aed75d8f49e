CONSTANTS
  t1 = t1
  t2 = t2
  NoThread = NoThread
  Main = t1
  Threads <- OneThread
  CondBrCount = 3
  GoalCount = 0
  Hooks = {"br"}
  InputCount = 0
  InputImages <- Scaled
  AtExitCalls = 0
SPECIFICATION Spec
CHECK_DEADLOCK FALSE
INVARIANTS
  RecordsFitRegion

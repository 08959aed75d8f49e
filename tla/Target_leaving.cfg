CONSTANTS
  t1 = t1
  t2 = t2
  NoThread = NoThread
  Main = t1
  Threads <- TwoThreads
  CondBrCount = 0
  GoalCount = 2
  Hooks = {"goal", "error", "read"}
  InputCount = 1
  InputImages <- WithAndWithoutRoom
  AtExitCalls = 2
SPECIFICATION FairSpec
CHECK_DEADLOCK FALSE
PROPERTIES
  LeavingEnds

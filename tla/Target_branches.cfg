CONSTANTS
  t1 = t1
  t2 = t2
  NoThread = NoThread
  Main = t1
  Threads <- TwoThreads
  CondBrCount = 2
  GoalCount = 0
  Hooks = {"br", "error"}
  InputCount = 0
  InputImages <- WithAndWithoutRoom
  AtExitCalls = 1
SPECIFICATION Spec
CHECK_DEADLOCK FALSE
INVARIANTS
  TypeOK
  RecordsAreContiguous
  CompletedIsRecorded
  OnlyTornIsExtra
  QuietIsExact
  ChecksumTellsTorn
PROPERTIES
  ImplementsExecution

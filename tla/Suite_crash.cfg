CONSTANTS
  a = a
  b = b
  NoTest = NoTest
  Tests <- OneTest
  Place <- AFirst
  WaveCount = 1
  CondBrCount = 1
  InputView <- Harmless
SPECIFICATION Spec
CHECK_DEADLOCK FALSE
INVARIANTS
  CrashIsReported

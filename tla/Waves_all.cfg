CONSTANTS
  Limits <- MCLimits
  TestCounts <- MCCounts
SPECIFICATION Spec
CHECK_DEADLOCK FALSE
INVARIANTS
  TypeOK
  BudgetIsSpent
  WavesAsExpected

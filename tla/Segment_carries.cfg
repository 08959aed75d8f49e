CONSTANTS
  Sizes <- MCSizes
  Page = 64
  Lengths <- MCLengths
  MaxExecutions = 3
  MaxSlot = 2
SPECIFICATION Spec
INVARIANTS
  InputArrives
  NothingStale
  FoundWhereRead

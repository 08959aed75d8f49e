CONSTANTS
  Values <- MCValues
  Texts <- MCTexts
  MaxInputs = 2
  InitialSize = 17
SPECIFICATION Spec
CHECK_DEADLOCK FALSE
INVARIANTS
  TypeOK
  BufferIsBigEnough
  ReadsInStep
  ReadsWhatIsMeant

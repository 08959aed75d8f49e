CONSTANTS
  Segments <- MCSegments
  NoSegment = NoSegment
  MaxRecords = 2
  Uint32 = 8
  Bits = {0, 1}
  Room = 2
SPECIFICATION Spec
CHECK_DEADLOCK FALSE
INVARIANTS
  TypeOK
  CoveredAtMostTotal
  MapIsUnion
  GoalsAreUnion
  HitsAtMostTotal
PROPERTIES
  CoverageGrows

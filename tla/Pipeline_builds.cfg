CONSTANTS
  v1 = v1
  v2 = v2
  Versions <- TwoVersions
  Beside <- Branchy
  NoFile = NoFile
  MaxInvocations = 3
SYMMETRY Either
SPECIFICATION Spec
INVARIANTS
  TypeOK
  BuiltAsWanted
  
  ClearedIsFresh

CONSTANTS
  a = a
  b = b
  NoTest = NoTest
  Tests <- TwoTests
  Place <- AFirst
  WaveCount = 2
  CondBrCount = 1
  InputView <- Mixed
SPECIFICATION FairSpec
CHECK_DEADLOCK FALSE
INVARIANTS
  TypeOK
  TerminationIsValid
  OncePerWaveUntilDone
  TimeoutMeansExpired
  TrustedCoverageIsExact
  TrustedVerdictIsExact
PROPERTIES
  ResultsAreSaved

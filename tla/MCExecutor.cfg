CONSTANTS
  Steps = {1, 2, 3}
  Missing = 99
  NoStep = 0
SPECIFICATION MCSpec
INVARIANTS
  AcceptsExactlyDags
  WavesRespectDeps
  WavesMinimal
  SendsWithDependencies
  SkipsExactlyDownstream
  HardErrorIffRequiredFailed
  
PROPERTY RequestAnswered
CHECK_DEADLOCK FALSE

SPECIFICATION ShellSpec
CONSTANTS
  prod = prod
  staging = staging
  NoEnv = NoEnv
  NoQuery = NoQuery
  EnvList <- MCEnvList
  NavItems <- MCNavItems
  EnvPages <- MCEnvPages
  Scores <- MCScores
  MaxPerGroup = 1
  MaxShown = 1
  MaxToasts = 2
INVARIANTS  EnterPicksBest
PROPERTIES  ToastsLeave

CONSTANTS
  staging = staging
  prod = prod
  ann = ann
  Envs <- MCEnvs
  People <- MCPeople
  NoEnv = noenv
  MaxSecrets = 2
  MaxWrites = 3
  MaxInFlight = 2
SPECIFICATION Spec
INVARIANTS
  SecretShownOnce
PROPERTIES
  
  RevokesWhatIsShown

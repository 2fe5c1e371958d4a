CONSTANTS
  staging = staging
  prod = prod
  d1 = d1
  d2 = d2
  bad = bad
  Envs <- MCEnvs
  Docs <- BadDocs
  Valid <- BadValid
  Drafts0 <- BadDrafts
  Log0 <- BadLog
  NoEnv = noenv
  MaxVersions = 4
  MaxOthers = 2
SPECIFICATION Spec
INVARIANTS
  OneReviewOnePublish
PROPERTIES
  OwnVersionShows
  HistoryNeverBackwards

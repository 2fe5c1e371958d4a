CONSTANTS
  staging = staging
  prod = prod
  d1 = d1
  d2 = d2
  bad = bad
  Envs <- MCEnvs
  Docs <- MCDocs
  Valid <- MCDocs
  Drafts0 <- MCDrafts
  Log0 <- MCLog
  NoEnv = noenv
  MaxVersions = 3
  MaxOthers = 0
SPECIFICATION Spec
PROPERTY PublishesWhatWasReviewed

CONSTANTS
  Calls = {c1, c2}
  Methods = {"GET", "POST"}
  Statuses = {"200", "429", "500", "504"}
  ServerErrors = {"500", "504"}
  BackoffOn = {"429", "504"}
  DropOn = {"504"}
  RetryNonIdempotent = FALSE
  MaxAttempts = 2
  MaxFailures = 2
  MaxGenerations = 1
SPECIFICATION Spec
INVARIANTS
  SingleProbe
  
PROPERTY ProbeDecides
CHECK_DEADLOCK FALSE

CONSTANTS
  Envs = {prod}
  Docs = {d1, d2}
  EmptyDoc = d1
  Publishers = {p1, p2, p3}
  MaxVersions = 4
SPECIFICATION Spec
INVARIANTS
  NumbersDense
  AckedVersionsStand
  ConflictMeansProgress
PROPERTIES
  PublishEnds
  ImplementsLog

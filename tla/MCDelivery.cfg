CONSTANTS
  prod = prod
  g1 = g1
  Envs = {prod}
  Docs = {d1, d2}
  NoDoc = NoDoc
  Gateways = {g1}
  EnvOf <- ProdGateway
  MaxVersions = 2
  MaxRestarts = 1
SPECIFICATION Spec
INVARIANTS
  ReadyServesPublished
  ShownWasApplied
PROPERTIES
  NeverBackwards
  Converges

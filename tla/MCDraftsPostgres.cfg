CONSTANTS
  Keys = {users}
  Tabs = {t1, t2}
  Dialect = "postgres"
  MaxWrites = 4
SPECIFICATION DraftsSpec
INVARIANTS
  OlderTabRefused

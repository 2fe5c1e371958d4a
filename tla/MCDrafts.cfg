CONSTANTS
  Keys = {users, orders}
  Tabs = {t1, t2}
  Dialect = "sqlite"
  MaxWrites = 5
SYMMETRY TabSymmetry
SPECIFICATION DraftsSpec
INVARIANT NoLostUpdate
PROPERTY RevisionsCountUp

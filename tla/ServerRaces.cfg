SPECIFICATION Spec
CONSTANTS
  d1 = d1
  d2 = d2
  r1 = r1
  r2 = r2
  r3 = r3
  Databases = {d1, d2}
  Default = d1
  NoDb = NoDb
  Requests = {r1, r2, r3}
  Plans <- ConcurrentPlans
  MaxPanics = 1
  MaxRestarts = 1
INVARIANTS ShownIsDurable CatalogMatchesDisk BatchesAreContiguous ActiveIsServed
PROPERTY AllAnswered
CHECK_DEADLOCK FALSE

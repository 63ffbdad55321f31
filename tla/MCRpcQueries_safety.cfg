SPECIFICATION Spec
CONSTANTS
  Query = {q1, q2}
  NoQuery = NoQuery
  MaxSalt = 1
  MaxDrops = 1
  MaxResets = 0
  OutLimit = 1
  MaxInFlight = 2
  UserQuits = FALSE
INVARIANTS QueriesRight
PROPERTIES ResendOnlyWaiting KeepsPromise
CHECK_DEADLOCK FALSE

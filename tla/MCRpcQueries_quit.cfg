SPECIFICATION Spec
CONSTANTS
  Query = {q1, q2}
  NoQuery = NoQuery
  MaxSalt = 0
  MaxDrops = 0
  MaxResets = 0
  OutLimit = 1
  MaxInFlight = 2
  UserQuits = TRUE
PROPERTY QuitOnlyWhenDone
CHECK_DEADLOCK FALSE

SPECIFICATION FairSpec
CONSTANTS
  Query = {q1}
  NoQuery = NoQuery
  MaxSalt = 1
  MaxDrops = 2
  MaxResets = 1
  OutLimit = 1
  MaxInFlight = 2
  UserQuits = TRUE
PROPERTIES EveryQueryFinishes AnswersAcknowledged UnackedQueryProceeds
CHECK_DEADLOCK FALSE

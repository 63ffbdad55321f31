CONSTANTS
  m1 = m1  s1 = s1  i1 = i1
  Local <- PlainAndSecret  Encrypted <- OnlySecret  Incoming <- OneIncoming
  MaxId = 2
  MaxCrashes = 2
SPECIFICATION FairSpec
INVARIANTS MessagesRight NoAssertFails ToldRightly LogAgrees NothingFreedUsed
PROPERTIES Settled
CHECK_DEADLOCK FALSE

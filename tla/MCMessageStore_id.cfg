CONSTANTS
  m1 = m1  s1 = s1  i1 = i1
  Local <- PlainAndSecret  Encrypted <- OnlySecret  Incoming <- OneIncoming
  MaxId = 2
  MaxCrashes = 0
SPECIFICATION Spec
INVARIANT IdTaken
CHECK_DEADLOCK FALSE

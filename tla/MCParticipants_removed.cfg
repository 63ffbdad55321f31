CONSTANTS
  Members = {u1, u2} MaxVersion = 3 MaxFeed = 2 MaxRepeats = 1 MaxStarts = 1
SPECIFICATION FairSpec
INVARIANTS NoAssertFails
CHECK_DEADLOCK FALSE

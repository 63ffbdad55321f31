CONSTANTS
  MaxRepeats = 2
  MaxCrashes = 2
  MaxKeys = 3
SPECIFICATION FairSpec
INVARIANTS ChatRight DiscardRemembered Durable
PROPERTIES Forward Concluded
CHECK_DEADLOCK FALSE

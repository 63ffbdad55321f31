CONSTANTS
  MaxRepeats = 0
  MaxCrashes = 0
  MaxKeys = 1
SPECIFICATION Spec
INVARIANT AnswerIsExpected
CHECK_DEADLOCK FALSE

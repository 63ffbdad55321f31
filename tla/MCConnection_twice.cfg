CONSTANTS
  Fd = {f1}
  MaxOut = 1
  MaxDeaths = 1
  MaxOutages = 0
SPECIFICATION Spec
INVARIANT NoTimerTwice
CHECK_DEADLOCK FALSE

CONSTANTS
  Fd = {f1, f2}
  MaxOut = 2
  MaxDeaths = 2
  MaxOutages = 1
SPECIFICATION FairSpec
INVARIANTS ConnectionRight CrashNeedsFailure
PROPERTIES Reconnects SilenceNoticed
CHECK_DEADLOCK FALSE

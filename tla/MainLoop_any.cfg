SPECIFICATION FairSpec
CONSTANTS
  Ios = {io1}
  Timers = {t1}
  None = None
  MaxFd = 1
  MaxEntries = 2
  MaxInstalls = 1
  MaxArmed = 2
  Usages = {{}, {"others", "inside"}}
INVARIANTS Inv
PROPERTIES QuitEnds
CHECK_DEADLOCK FALSE

SPECIFICATION FairSpec
CONSTANTS
  r1 = r1
  r2 = r2
  i1 = i1
  c1 = c1
  e1 = e1
  None = None
  Ops = {r1}
  Type <- TypeOfOps
  InitSecurity = 0
  ApiLevels = {}
  TimersRun = FALSE
  PeerConforms = TRUE
  MaxInbox = 1
PROPERTIES
  EveryOpEnds
CHECK_DEADLOCK FALSE

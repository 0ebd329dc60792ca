SPECIFICATION Spec
CONSTANTS
  r1 = r1
  r2 = r2
  i1 = i1
  c1 = c1
  e1 = e1
  None = None
  Ops = {r1, r2, i1, c1, e1}
  Type <- TypeOfOps
  InitSecurity = 0
  ApiLevels = {1}
  TimersRun = TRUE
  PeerConforms = TRUE
  MaxInbox = 1
SYMMETRY Requests12
INVARIANTS
  TypeOK
  NoLostWakeup
  HandlersOnce
  Conservation
  ConformingPeerUnderstood
PROPERTIES
  NoCallbackAfterDestroy
  ImplementsService
CHECK_DEADLOCK FALSE

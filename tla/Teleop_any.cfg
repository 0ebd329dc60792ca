SPECIFICATION Spec
CONSTANTS
  None = None
  Worlds <- MCWorlds
  MaxQueue = 2
  Positions <- MCPositions
  MaxEvents = 1
INVARIANTS Inv StoppedAtEnd
PROPERTIES Ends FollowsStick
CHECK_DEADLOCK FALSE

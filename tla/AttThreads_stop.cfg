SPECIFICATION FairSpec
CONSTANTS
  enable = enable
  enter = enter
  drive = drive
  halt = halt
  disable = disable
  None = None
  Script <- Session
  Requests = {enable, disable}
  Stop = halt
  Callers = {"thread"}
PROPERTIES
  StopIsSent
CHECK_DEADLOCK FALSE

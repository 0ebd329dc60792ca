SPECIFICATION FairSpec
CONSTANTS
  enable = enable
  enter = enter
  drive = drive
  halt = halt
  disable = disable
  None = None
  Script <- ShortSession
  Requests = {enable, disable}
  Stop = halt
  Callers = {"callback", "thread"}
INVARIANTS Inv SentInOrder
PROPERTIES EverythingSent
CHECK_DEADLOCK FALSE

SPECIFICATION Spec
CONSTANTS
  l1 = l1
  l2 = l2
  s1 = s1
  s2 = s2
  None = None
  Chunks <- TwoChunks
  Long = {l1, l2}
  Session = {s1}
  Usages = {{"long", "session"}}
INVARIANTS
  NoInterleaving
CHECK_DEADLOCK FALSE

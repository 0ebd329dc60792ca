SPECIFICATION Spec
CONSTANTS
  Entries = {e1, e2, e3}
  Data = {x1, x2}
  n1 = n1
  n2 = n2
  d1 = d1
  d2 = d2
  g1 = g1
  Requests = {r1}
  None = None
INVARIANTS Inv FoundAll
PROPERTIES AllVisited ImplementsSequence ToldOnce Ends
CHECK_DEADLOCK FALSE

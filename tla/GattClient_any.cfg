SPECIFICATION Spec
CONSTANTS
  Long = {l1, l2}
  Session = {s1}
  Regs = {n1, n2, n3}
  Reqs = {r1, r2, r3}
  Handlers = {h1, h2, h3}
  None = None
INVARIANTS Inv NeverMixedAlone SubscribersEnabled ToldOnce LongReadExact
PROPERTIES Ends
CHECK_DEADLOCK FALSE

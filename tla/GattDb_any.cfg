SPECIFICATION Spec
CONSTANTS
  Services = {s1, s2, s3}
  MaxHandle = 4
  Keys <- MCKeys
  Watchers = {w1, w2, w3}
  Places <- MCPlaces
  Most <- MCMost
  MaxDepth = 2
  None = None
  Usages <- MCUsages
  Requests = {r1, r2}
  Managed = {3}
  MaxLen = 3
INVARIANTS Inv ViewsExact ToldOnce WatchersKnow
PROPERTIES Answered
CHECK_DEADLOCK FALSE

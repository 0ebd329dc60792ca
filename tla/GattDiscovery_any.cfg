SPECIFICATION FairSpec
CONSTANTS
  Slots = {1, 2, 3, 4}
  Gatt = 1
  Secondary = {4}
  Single = {3}
  Described = {2}
  Included <- SomeIncluded
  Worlds = {{}, {"errors", "early", "gatt", "overlap", "secondary"}}
  MaxChanges = 2
INVARIANTS Inv MatchesOneAtATime
PROPERTIES OneDiscovery ReadyTold ChangesSettle
CHECK_DEADLOCK FALSE

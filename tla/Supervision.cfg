SPECIFICATION FairSpec
CONSTANTS
  Actors = {root, c1, c2, g}
  Root = root
  Parent <- Tree
  c1 = c1
  c2 = c2
  g = g
  Calls <- ThreeCalls
  x = x
  y = y
  Crashers = {root, c2}
  None = None
CHECK_DEADLOCK FALSE
INVARIANTS ChildrenFirst
PROPERTY TreeStops

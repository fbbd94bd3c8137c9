SPECIFICATION FairSpec
CONSTANTS
  Actors = {root, c1, g}
  Root = root
  Parent <- Chain
  c1 = c1
  c2 = c2
  g = g
  Calls <- TwoCalls
  x = x
  y = y
  Crashers = {}
  None = None
CHECK_DEADLOCK FALSE
PROPERTY ChildrenStopped

SPECIFICATION Spec
CONSTANTS
  n1 = n1
  n2 = n2
  a = a
  c1 = c1
  c2 = c2
  c3 = c3
  Nodes = {n1, n2}
  Ids = {a}
  Kinds = {n1, n2}
  Calls = {c1, c2}
  Plans <- Twice
  Views <- Join
  None = None
INVARIANTS UniqueActors
CHECK_DEADLOCK FALSE

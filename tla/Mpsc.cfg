SPECIFICATION FairSpec
CONSTANTS
  Producers = {p1, p2}
  Values = {v1, v2}
  BatchSize = 2
  Nodes = {n1, n2, n3}
  Zero = Zero
  Nil = Nil
INVARIANTS RecycleSafe
PROPERTIES RefinesQueue Consumed

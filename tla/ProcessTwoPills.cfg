SPECIFICATION FairSpec
CONSTANTS
  NMsgs = 1
  MaxCalls = 4
  Pills = {a, b}
  Graceful = {a, b}
  Spawner = spawner
  Workers = {w1, w2}
  MaxRestarts = 1
  MsgPanics = {}
  LifePanics = {}
  None = None
CHECK_DEADLOCK FALSE
PROPERTY PillCompletes

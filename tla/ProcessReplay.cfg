SPECIFICATION Spec
CONSTANTS
  NMsgs = 2
  MaxCalls = 4
  Pills = {a}
  Graceful = {a}
  Spawner = spawner
  Workers = {w1, w2}
  MaxRestarts = 1
  MsgPanics = {"restart"}
  LifePanics = {}
  None = None
CHECK_DEADLOCK FALSE
PROPERTY RetryUnprocessed

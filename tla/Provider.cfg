SPECIFICATION FairProviderSpec
CONSTANTS
  NMsgs = 2
  MaxCalls = 4
  Pills = {a, b}
  Graceful = {a}
  Spawner = spawner
  Workers = {w1, w2}
  MaxRestarts = 1
  MsgPanics = {"restart", "internal"}
  LifePanics = {"restart"}
  None = None
CHECK_DEADLOCK FALSE
INVARIANTS InOrder GracefulDrains DoneMeansGone OnePinger
PROPERTIES OnlyWhileStarted ReplayBehindPill AcceptedIsReceived StopTakesEffect LonePillCompletes ClusterStopReturns

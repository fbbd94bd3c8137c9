SPECIFICATION FairSpec
CONSTANTS
  Starters = {s1, s2, s3}
  Stoppers = {t1, t2, t3}
  None = None
CHECK_DEADLOCK FALSE
INVARIANT StoppedIsClosed
PROPERTY StopReturns

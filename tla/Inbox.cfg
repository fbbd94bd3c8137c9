SPECIFICATION FairSpec
CONSTANTS
  Producers = {p1, p2}
  Workers = {w1, w2}
  MaxSends = 2
  Values = {1, 2}
  BatchSize = 2
CHECK_DEADLOCK FALSE
INVARIANTS SingleConsumer NoLostWakeup CountExact
PROPERTIES RefinesMailbox SentIsHandled

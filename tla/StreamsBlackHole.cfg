SPECIFICATION FairSpec
CONSTANTS
  Nobody = Nobody
  Empty = Empty
  alice = alice
  bob = bob
  carol = carol
  ping = ping
  pong = pong
  Content <- Plain
  KnownTypes = {ping}
PROPERTIES StreamsHaveWriters
CHECK_DEADLOCK FALSE

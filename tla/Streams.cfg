SPECIFICATION FairSpec
CONSTANTS
  Nobody = Nobody
  Empty = Empty
  alice = alice
  bob = bob
  carol = carol
  ping = ping
  pong = pong
  Content <- Mixed
  KnownTypes = {ping}
INVARIANTS Faithful OnceInOrder OneWriter
PROPERTIES Settled
CHECK_DEADLOCK FALSE

SPECIFICATION Spec
CONSTANTS
  Nobody = Nobody
  Empty = Empty
  alice = alice
  bob = bob
  carol = carol
  ping = ping
  pong = pong
  Content <- Plain
  KnownTypes = {ping}
INVARIANTS SenderFaithful
CHECK_DEADLOCK FALSE

SPECIFICATION FairSpec
CONSTANTS
  Requests = {r1, r2}
  Subs = {s1}
  Server = Server
  Foreign = Foreign
  None = None
  Replies <- Once
INVARIANTS OwnReply ReplyNeverBlocks
PROPERTIES Notified EventsCease
CHECK_DEADLOCK FALSE

\* Three requests, a queue of one, and a network that comes, goes and comes.
SPECIFICATION FairSpec
CONSTANTS
  Requests = {r1, r2, r3}
  QueueDepth = 1
  MaxChanges = 4
  MaxEvents = 2
INVARIANTS TypeOK BuffersMatchRequests
PROPERTIES QueueIsThere SocketsAfterInitialization MainStarts
CHECK_DEADLOCK FALSE

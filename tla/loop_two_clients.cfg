CONSTANTS
  c1 = c1
  c2 = c2
  Clients = {c1, c2}
  NoClient = NoClient
  Commands = {"DATA"}
  MAX_REQUESTS = 3
  REQUEST_PARTS = 2
  REPLY_PARTS = 2
  BUFFER_SIZE = 3
  SEND_BUFFER = 3
  MAX_FDS = 2
  PartialWrites = FALSE
SPECIFICATION Spec
SYMMETRY MCSymmetry
INVARIANTS
  TypeOK
  RepliesInOrder
  WatcherFollowsAnswer
  NoEventOfClosed

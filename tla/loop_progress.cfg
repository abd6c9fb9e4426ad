CONSTANTS
  c1 = c1
  c2 = c2
  Clients = {c1, c2}
  NoClient = NoClient
  Commands = {"DATA", "COMMAND"}
  MAX_REQUESTS = 2
  REQUEST_PARTS = 2
  REPLY_PARTS = 2
  BUFFER_SIZE = 3
  SEND_BUFFER = 1
  MAX_FDS = 1
  PartialWrites = TRUE
SPECIFICATION FairSpec
INVARIANTS
  RepliesCounted
PROPERTIES
  EventuallyAnswered
  TimerGetsItsTurn

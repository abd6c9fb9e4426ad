CONSTANTS
  c1 = c1
  c2 = c2
  Clients = {c1}
  NoClient = NoClient
  Commands = {"DATA"}
  MAX_REQUESTS = 2
  REQUEST_PARTS = 1
  REPLY_PARTS = 2
  BUFFER_SIZE = 2
  SEND_BUFFER = 1
  MAX_FDS = 2
  PartialWrites = TRUE
SPECIFICATION Spec
INVARIANT AnswersAreOwn

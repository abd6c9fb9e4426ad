CONSTANTS
  c1 = c1
  c2 = c2
  k1 = k1
  s1 = s1
  Absent = Absent
  NotCached = NotCached
  ShortKeys = {k1}
  LongKeys = {}
  SmallValues = {s1}
  LargeValues = {}
  Regimes = {"DEFFER_DUMP"}
  MAX_COUNT_OPERATION = 2
  TextOf <- MCTextOf
  KeyLists <- MCKeyLists
  Clients = {c1, c2}
  NoClient = NoClient
  Requests <- MCRequests
  Scripts <- MCScripts
  MAX_REQUESTS = 2
  REQUEST_PARTS = 1
  REPLY_PARTS = 1
  BUFFER_SIZE = 2
  SEND_BUFFER = 1
  MAX_FDS = 2
  PartialWrites = FALSE
SPECIFICATION PFairSpec
INVARIANTS
  ProxyTypeOK
  RepliesAreOfTheirTime
PROPERTIES
  EventuallySaved

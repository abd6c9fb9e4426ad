CONSTANTS
  plain = plain
  terminators = terminators
  header = header
  long = long
  empty = empty
  Streams <- MCStreams
  BUFFER_SIZE = 13
SPECIFICATION FairSpec
INVARIANTS
  TypeOK
  ParsedAsSent
  WritesStayInside
PROPERTIES
  EventuallyParsed
CHECK_DEADLOCK FALSE

SPECIFICATION Spec
CONSTANTS
  Streams <- MCStreams
  MAXLINE = 3
INVARIANT
  TypeOK
PROPERTIES
  ImplementsLineReader
  CallsEnd
CHECK_DEADLOCK FALSE

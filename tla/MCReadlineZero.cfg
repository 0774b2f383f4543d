SPECIFICATION Spec
CONSTANTS
  Streams <- MCStreams
  MAXLINE = 3
INVARIANT
  ZeroMeansClosed
CHECK_DEADLOCK FALSE

SPECIFICATION SessionSpec
CONSTANTS
  me = me
  None = None
  Clients = {me}
  Stream <- MCStream
  SOCKBUF = 2
  MAXLINE = 4
  OPEN_MAX = 6
  FD_SETSIZE = 6
INVARIANTS
  AllPrinted
PROPERTY
  DoneUnlessStalled
CHECK_DEADLOCK FALSE

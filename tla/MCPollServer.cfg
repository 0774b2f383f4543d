SPECIFICATION Spec
CONSTANTS
  alice = alice
  bob = bob
  carol = carol
  None = None
  Clients = {alice, bob, carol}
  Stream <- MCStream
  SOCKBUF = 2
  MAXLINE = 3
  OPEN_MAX = 7
  TABLE = 3
INVARIANTS
  TableAgrees
  ReadinessHolds
  EchoFaithful
PROPERTY
  NobodyStarves
CHECK_DEADLOCK FALSE

SPECIFICATION Spec
CONSTANTS
  alice = alice
  bob = bob
  carol = carol
  None = None
  Clients = {alice, bob, carol}
  Stream <- MCStream
  SOCKBUF = 2
  MAXLINE = 3
  OPEN_MAX = 6
  FD_SETSIZE = 6
INVARIANTS
  TableAgrees
  NreadyExact
  ReadinessHolds
  SlotAlwaysFree
  EchoFaithful
PROPERTY
  NobodyStarves
CHECK_DEADLOCK FALSE

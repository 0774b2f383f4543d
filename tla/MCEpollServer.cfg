SPECIFICATION Spec
CONSTANTS
  alice = alice
  bob = bob
  carol = carol
  None = None
  Clients = {alice, bob, carol}
  Stream <- MCStream
  SOCKBUF = 2
  MAXLINE = 3
  OPEN_MAX = 6
  MAXEVENTS = 3
INVARIANTS
  WatchAgrees
  BatchFresh
  DeathExplained
  EchoFaithful
PROPERTY
  NobodyHeldUp
CHECK_DEADLOCK FALSE

SPECIFICATION Spec
CONSTANTS
  alice = alice
  bob = bob
  carol = carol
  None = None
  Clients = {alice, bob, carol}
  Stream <- MCStream
  SOCKBUF = 2
  OPEN_MAX = 7
  TCP_QUEUE_LEN = 2
  BUFFER_SIZE = 2
INVARIANTS
  PeersAgree
  AnswersInStep
PROPERTY
  NobodyWaitsForEver
CHECK_DEADLOCK FALSE

SPECIFICATION ForkSpec
CONSTANTS
  alice = alice
  bob = bob
  None = None
  Clients = {alice, bob}
  Lines <- MCLines
  LENGTH = 2
  MAXLINE = 4
  SOCKBUF = 4
PROPERTIES
  ImplementsEcho
  EveryoneAnswered
CHECK_DEADLOCK FALSE

SPECIFICATION SmallSpec
CONSTANTS
  MaxWait = 2
  Texts <- MCTexts
  MESSAGE = 3
  SOCKBUF = 4
  alice = alice
  bob = bob
  Nobody = Nobody
  UdpClients = {alice, bob}
  ConnectedClients = {bob}
  UdpLines <- MCUdpLines
  MaxCrashes = 2
  MAX = 3
  MaxNumber = 8
  Unlocked = Unlocked
INVARIANTS
  WaitBounded
  ConnectedBlocks
  ShownInOrder
  EchoesInStep
  AllCounted
PROPERTIES
  TimeoutHonest
  RefusalReported
  WaitsEnd
  EndsTogether
  AnsweredUnlessLost
CHECK_DEADLOCK FALSE

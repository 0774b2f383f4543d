SPECIFICATION MCSpec
CONSTANTS
  BUFFER_SIZE = 3
  Items = 7
INVARIANTS
  LockHeld
  AccessAllowed
  NoLostWakeup
PROPERTIES
  ImplementsFifo
  RunsToTheEnd

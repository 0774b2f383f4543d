SPECIFICATION SpuriousSpec
CONSTANTS
  BUFFER_SIZE = 3
  Items = 7
INVARIANT
  AccessAllowed
CHECK_DEADLOCK FALSE

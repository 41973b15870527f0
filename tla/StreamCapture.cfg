SPECIFICATION Spec
CONSTANTS
  Addresses = {a1, a2}
  Names = {n1, n2}
  NoAddress = NoAddress
  NoName = NoName
  PoolSize = 1
  MaxHandlers = 3
  MaxPackets = 2
INVARIANTS TypeOK LogsAreComplete TableIsSound
PROPERTIES RequestsEnd
CHECK_DEADLOCK FALSE

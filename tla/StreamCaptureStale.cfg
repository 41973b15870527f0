SPECIFICATION Spec
CONSTANTS
  Addresses = {a1}
  Names = {n1}
  NoAddress = NoAddress
  NoName = NoName
  PoolSize = 1
  MaxHandlers = 2
  MaxPackets = 1
PROPERTIES AddedToMonitoring
CHECK_DEADLOCK FALSE

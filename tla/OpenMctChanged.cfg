SPECIFICATION Spec
CONSTANTS
  NoSocket = NoSocket
  Sockets = {s1, s2}
  Fields = {f1}
  Kinds = {"good"}
  QueueLen = 2
  MaxPackets = 2
INVARIANTS PollerGoesOn
CHECK_DEADLOCK FALSE

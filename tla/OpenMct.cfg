SPECIFICATION Spec
CONSTANTS
  NoSocket = NoSocket
  Sockets = {s1, s2}
  Fields = {f1, f2}
  Kinds = {"good", "scalar", "array"}
  QueueLen = 1
  MaxPackets = 2
INVARIANTS InOrder SetMatchesHandlers
PROPERTIES BroadcastReaches
CHECK_DEADLOCK FALSE

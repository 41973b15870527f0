SPECIFICATION Spec
CONSTANTS
  Greenlets = {g1, g2, g3}
  MaxLen = 2
  MaxItems = 3
INVARIANTS NoLostWakeup ReturnedOnce NeverSpins NewestInOrder
PROPERTIES TimedPopEnds SleeperServed
CHECK_DEADLOCK FALSE

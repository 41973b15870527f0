SPECIFICATION Spec
CONSTANTS
  Greenlets = {g1, g2}
  MaxLen = 2
  MaxItems = 2
INVARIANTS TimedPopCanEnd
CHECK_DEADLOCK FALSE

CONSTANTS
  MaxDts = 2
  MaxCounted = 2
  MaxQueue = 2
SPECIFICATION Spec
PROPERTY OutputInOrder
CHECK_DEADLOCK FALSE

CONSTANTS
  MaxDts = 2
  MaxCounted = 4
  MaxQueue = 2
SPECIFICATION Spec
INVARIANTS TypeOK MuxerIntact NothingHeldBack WritesIncrease
CHECK_DEADLOCK FALSE

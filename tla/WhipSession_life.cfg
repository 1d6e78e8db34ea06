SPECIFICATION FairSpec
INVARIANTS TypeOK OrphanHasACause SourceFreesTracks
PROPERTY HeaderReturns
CHECK_DEADLOCK FALSE

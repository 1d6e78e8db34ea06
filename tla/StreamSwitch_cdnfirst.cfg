CONSTANTS
  VideoGop = 2
  TransportErrorLimit = 1
  KeyInterval = 3
  AllocMayFail = FALSE
SPECIFICATION FairSpec
PROPERTY ReadyCdnIsChosen

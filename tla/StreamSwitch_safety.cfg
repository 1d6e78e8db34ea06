CONSTANTS
  VideoGop = 2
  TransportErrorLimit = 1
  KeyInterval = 3
  AllocMayFail = TRUE
SPECIFICATION Spec
INVARIANTS TypeOK DecodableOutput PendingConsistent ActiveSourceReadable
PROPERTY ImplementsPlayableOutput

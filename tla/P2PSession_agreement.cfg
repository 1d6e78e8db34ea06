CONSTANTS
  Viewer = v
  Relay = p
  Socket = {w1}
  Streams <- OneStream
  Failures = {"none", "freed"}
  ProbePackets = 1
  QueueBound = 2
  EventBound = 2
SPECIFICATION Spec
INVARIANTS TypeOK StreamingIsAgreed MediaIsWanted AcceptedWasProbed
PROPERTY ImplementsStreamAgreement
CHECK_DEADLOCK FALSE

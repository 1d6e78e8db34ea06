CONSTANTS
  Receiver = {r1}
  Socket = {w1}
  Streams <- OneStream
  Failures = {}
SPECIFICATION FairSpec
PROPERTY StreamingIsNoticed

CONSTANTS
  Receiver = {r1, r2}
  Socket = {w1}
  Streams <- OneStream
  Failures = {}
SPECIFICATION Spec
INVARIANTS TypeOK MediaOnlyToAskers
SYMMETRY ReceiverSymmetry

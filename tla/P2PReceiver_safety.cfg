CONSTANTS
  Sender = {s1, s2}
  ProbePackets = 1
SPECIFICATION Spec
INVARIANTS TypeOK RequestHasNode SelectedWasProbed
SYMMETRY SenderSymmetry

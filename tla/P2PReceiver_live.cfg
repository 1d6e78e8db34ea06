CONSTANTS
  Sender = {s1}
  ProbePackets = 2
SPECIFICATION FairSpec
PROPERTY ConnectThreadReturns

CONSTANTS
  Receiver = {r1}
  Socket = {w1}
  Streams <- TwoStreams
  Failures = {"none"}
SPECIFICATION FairSpec
INVARIANT SelectedTracksLive
PROPERTIES InitReturns RetryReachesReceiver

SPECIFICATION CodeFairSpec
CONSTANTS
  Honest = {"a"}
  MaxPending = 2
  MaxSendToAll = 1
  SocketCapacity = 1
  PeerFrames <- SomeFrames
  MaxPeerFrames = 1
  MaxBeats = 0
PROPERTIES
  FlooderShutDown
CHECK_DEADLOCK FALSE

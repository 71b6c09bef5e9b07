SPECIFICATION FairSpec
CONSTANTS
  Honest = {"a"}
  MaxPending = 2
  MaxSendToAll = 1
  SocketCapacity = 1
  PeerFrames <- SomeFrames
  MaxPeerFrames = 3
  MaxBeats = 0
INVARIANT AnswersInOrder
PROPERTIES
  ExchangeRefined
  BadPeerDropped
  FlooderShutDown
CHECK_DEADLOCK FALSE

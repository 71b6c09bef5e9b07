SPECIFICATION FairSpec
CONSTANTS
  Honest = {"a", "b"}
  MaxPending = 2
  MaxSendToAll = 1
  SocketCapacity = 1
  PeerFrames <- SomeFrames
  MaxPeerFrames = 0
  MaxBeats = 1
INVARIANTS
  TypeOK
  HonestNeverRefused
  FloodNeedsHeartbeats
PROPERTIES
  TeardownCompletes
  HandshakeAnswered
CHECK_DEADLOCK FALSE

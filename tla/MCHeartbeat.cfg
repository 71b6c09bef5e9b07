SPECIFICATION TimerFairSpec
CONSTANTS
  s1 = s1
  i1 = i1
  a = a
  b = b
  NoAddr = NoAddr
  Seed = {s1}
  SeedAddr <- OneSeedAddr
  Inbound = {i1}
  Metadata = {s1, i1}
  Addr = {a, b}
  PeerAddr = {a, b}
  Capacity = 2
  PeersRebind = TRUE
  Period = 2
  MaxLate = 3
INVARIANTS
  TimerTypeOK
  BoundedSilence
  BoundedBursts
PROPERTIES
  HeartbeatsResume
  DeadPeerForgotten
CHECK_DEADLOCK FALSE

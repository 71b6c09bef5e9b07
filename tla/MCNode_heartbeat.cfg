SPECIFICATION Spec
CONSTANTS
  s1 = s1
  s2 = s2
  i1 = i1
  i2 = i2
  i3 = i3
  a = a
  b = b
  d = d
  NoAddr = NoAddr
  Seed = {}
  SeedAddr <- NoSeedAddr
  Inbound = {i1, i2}
  Metadata = {i1, i2}
  Addr = {a, b}
  PeerAddr = {a, b}
  Capacity = 2
  PeersRebind = FALSE
INVARIANT HeartbeatSurvives
CHECK_DEADLOCK FALSE

SPECIFICATION Spec
CONSTANTS
  s1 = s1
  s2 = s2
  i1 = i1
  i2 = i2
  i3 = i3
  a = a
  b = b
  d = d
  NoAddr = NoAddr
  Seed = {s1, s2}
  SeedAddr <- SameSeedAddr
  Inbound = {i1, i2}
  Metadata = {s1, s2, i1, i2}
  Addr = {a, b, d}
  PeerAddr = {b, d}
  Capacity = 2
  PeersRebind = FALSE
INVARIANT PeersWithinLimit
SYMMETRY InboundSymmetry
CHECK_DEADLOCK FALSE

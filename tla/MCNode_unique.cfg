SPECIFICATION Spec
CONSTANTS
  s1 = s1
  s2 = s2
  i1 = i1
  i2 = i2
  i3 = i3
  a = a
  b = b
  d = d
  NoAddr = NoAddr
  Seed = {s1}
  SeedAddr <- OneSeedAddr
  Inbound = {i1, i2, i3}
  Metadata = {s1, i1, i2, i3}
  Addr = {a, b, d}
  PeerAddr = {a, b, d}
  Capacity = 2
  PeersRebind = FALSE
INVARIANT ServedAreTracked
PROPERTY AdmissionRefined
CHECK_DEADLOCK FALSE

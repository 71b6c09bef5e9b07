SPECIFICATION FairSpec
CONSTANTS
  Path = {p1, p2}
  DefaultPath = p1
  Hosts = {h1, h2}
  Resolved = {h1}
  Localhost = h1
  Ports = {65535, 65536}
  Counts = {0, 1}
  Seed = {s1, s2}
INVARIANTS
  TypeOK
  StartedIsUsable
PROPERTY StartupDecided
CHECK_DEADLOCK FALSE

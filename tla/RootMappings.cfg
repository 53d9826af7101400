CONSTANTS
  Span = 64
  LastVa = 7
  Granule = 2
  Users = {u1, u2}
  Guest = Guest
  Page = 1
  Lengths = {0, 1, 3}
  Bases = {20, 24}
  MaxRoots = 3
  MaxMaps = 3
SPECIFICATION RootSpec
INVARIANTS
  FreeListIsCanonical
  SpaceIsPartitioned
  HostMapsMatch
CHECK_DEADLOCK FALSE
SYMMETRY UsersAlike

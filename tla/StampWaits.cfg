CONSTANTS
  N = 2
  MaskBits = 2
  Span = 8
  Base = 7
  MaxStamps = 2
  SelfWaits = {1}
  Quiescable = {1}
  Deletable = {1}
SPECIFICATION FairSpec
INVARIANTS
  NoSilentDeadlock
  NoDeath
PROPERTY WaitEnds
CHECK_DEADLOCK FALSE

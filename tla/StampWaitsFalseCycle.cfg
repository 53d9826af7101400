CONSTANTS
  N = 2
  MaskBits = 4
  Span = 8
  Base = 7
  MaxStamps = 2
  SelfWaits = {}
  Quiescable = {}
  Deletable = {}
SPECIFICATION Spec
INVARIANT OnlyCyclesRaise
CHECK_DEADLOCK FALSE

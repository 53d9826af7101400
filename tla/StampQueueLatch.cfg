CONSTANTS
  Capacity = 2
  CountSpan = 4
  Values = {v1, v2}
  Pushers = {p}
  Drainers = {d}
  Sloppy = {}
  MaxPushes = 3
  NoValue = NoValue
SPECIFICATION Spec
INVARIANT FaultedHeadIsReported

CONSTANTS
  Capacity = 1
  CountSpan = 2
  Values = {v1, v2}
  Pushers = {p}
  Drainers = {d1, d2}
  Sloppy = {}
  MaxPushes = 2
  NoValue = NoValue
SPECIFICATION FairSpec
PROPERTY DrainEnds

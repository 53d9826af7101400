CONSTANTS
  Capacity = 2
  CountSpan = 4
  Values = {v1, v2, v3}
  Pushers = {p}
  Drainers = {d}
  Sloppy = {v3}
  MaxPushes = 4
  NoValue = NoValue
SPECIFICATION FairSpec
INVARIANTS
  PublishedInOrder
  OnlyEndedPublished
  NothingPublishableLeft
  NoDeath
PROPERTIES
  PushReturns
  DrainEnds
CHECK_DEADLOCK FALSE

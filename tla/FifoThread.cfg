CONSTANTS
  Kinds = {"root", "child"}
  RingLength = 3
  CountSpan = 4
  Lengths = {1, 3}
  Malformed = {"skip", "fault"}
  Capacity = 1
  MaxCommands = 3
  MaxPauses = 1
SPECIFICATION FairSpec
INVARIANTS
  OnlyPublishedCellsRead
  RunOnceInOrder
  ReleasedAtBoundary
  DrainedMeansStopped
PROPERTIES
  EveryCommandRuns
  DrainEnds
CHECK_DEADLOCK FALSE

CONSTANTS
  Children = {1}
  Tasks = 1
  MaxCommands = 1
  MaxCalls = 2
  Calls = {"pause", "suspend", "disable"}
SPECIFICATION FairSpec
INVARIANTS
  NoDeath
  FaultIsShown
  PausedIsStill
PROPERTIES
  StampIsSeen
  FaultIsHandled
  CallsReturn
CHECK_DEADLOCK FALSE

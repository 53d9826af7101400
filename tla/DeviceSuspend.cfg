CONSTANTS
  Children = {1}
  Tasks = 1
  MaxCommands = 2
  MaxCalls = 1
  Calls = {"suspend"}
SPECIFICATION Spec
INVARIANT NeverDies
CHECK_DEADLOCK FALSE

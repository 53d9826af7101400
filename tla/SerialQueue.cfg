SPECIFICATION FairSpec
CONSTANTS
  Threads = {t1, t2, t3}
  Worker = Worker
  None = None
  MaxBlocks = 4
INVARIANTS
  OneWorker
PROPERTIES
  ImplementsExecutor
  ReleasedWorkerEnds
CHECK_DEADLOCK FALSE

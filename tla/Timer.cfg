SPECIFICATION FairTimerSpec
CONSTANTS
  Bits = 3
  Threads = {t1, t2}
  TimerThread = t1
  Caller = t2
  Jobs = {j1, j2}
  MaxMerges = 6
  Start = 1
  Interval = 2
  MaxTime = 5
  MaxJumps = 4
INVARIANTS
  OneInvocation
  NothingLostOrRepeated
  FiresFollowSchedule
PROPERTIES
  PendingIsTaken
  CancelFreesHandler
  PointsDelivered
  CancelEndsThread
CHECK_DEADLOCK FALSE

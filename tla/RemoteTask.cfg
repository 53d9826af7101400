SPECIFICATION FairSpec
CONSTANTS
  Threads = {t1}
  Link = Link
  MaxTokens = 3
  Trips = TRUE
INVARIANTS
  SignalledOnce
  CrashAnswersAll
  EndComesLast
PROPERTIES
  EveryTokenAnswered
  TaskGoes
  DeathIsTold
CHECK_DEADLOCK FALSE

\* The first program's own constants, and three processors for the second.
SPECIFICATION ThreadsSpec
CONSTANTS
  NUM_THREADS = 3
  TCOUNT = 10
  COUNT_LIMIT = 12
  Bonus = 125
  n_procs = 3
INVARIANTS
  HolderIsCritical
  NoLostWakeup
  NothingLost
  CleanupAlone
PROPERTIES
  Terminates
  OneSignalStops
CHECK_DEADLOCK FALSE

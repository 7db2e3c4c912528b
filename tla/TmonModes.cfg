SPECIFICATION FairSpec
CONSTANTS
  t1 = t1
  t2 = t2
  t3 = t3
  Ids = {t1, t2, t3}
  Target = t1
  NoTask = NoTask
  Configs <- AllConfigs
  Threads = TRUE
  ReuseIds = FALSE
  Outsiders = FALSE
  MaxClock = 3
  RingCap = 2
  MapCap = 3
  CallsMayFail = TRUE
INVARIANTS
  NoOrphan
PROPERTY Terminates
CHECK_DEADLOCK FALSE

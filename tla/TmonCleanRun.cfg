SPECIFICATION Spec
CONSTANTS
  t1 = t1
  t2 = t2
  t3 = t3
  Ids = {t1, t2, t3}
  Target = t1
  NoTask = NoTask
  Configs <- OnlyPlain
  Threads = TRUE
  ReuseIds = FALSE
  Outsiders = FALSE
  MaxClock = 5
  RingCap = 2
  MapCap = 3
  CallsMayFail = FALSE
SYMMETRY Symmetry
INVARIANT CleanRunIsComplete
CHECK_DEADLOCK FALSE

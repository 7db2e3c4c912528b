SPECIFICATION Spec
CONSTANTS
  p1 = p1
  p2 = p2
  p3 = p3
  t1 = t1
  t2 = t2
  t3 = t3
  c1 = c1
  c2 = c2
  k1 = k1
  Pids = {p1, p2, p3}
  Tids = {t1, t2, t3}
  Cpus = {c1}
  Keys = {k1}
  NoPid = NoPid
  NoTid = NoTid
  NoCpu = NoCpu
  NoKey = NoKey
  Target = p1
  Main = t1
  FreshTarget = FALSE
  SinkMayFail = TRUE
  JoinMayTimeOut = TRUE
  Follows = {TRUE}
  Maxes = {1}
  BufferCap = 6
  MaxClock = 4
  MaxOps = 1
  MaxLost = 0
SYMMETRY Symmetry
INVARIANT OnlyTheTree
CHECK_DEADLOCK FALSE

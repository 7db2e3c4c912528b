SPECIFICATION Spec
CONSTANTS
  p1 = p1
  p2 = p2
  p3 = p3
  t1 = t1
  t2 = t2
  t3 = t3
  c1 = c1
  c2 = c2
  k1 = k1
  Pids = {p1, p2, p3}
  Tids = {t1, t2, t3}
  Cpus = {c1}
  Keys = {k1}
  NoPid = NoPid
  NoTid = NoTid
  NoCpu = NoCpu
  NoKey = NoKey
  Target = p1
  Main = t1
  FreshTarget = TRUE
  SinkMayFail = TRUE
  JoinMayTimeOut = TRUE
  Follows = {TRUE}
  Maxes = {1}
  BufferCap = 2
  MaxClock = 9
  MaxOps = 1
  MaxLost = 0
SYMMETRY Symmetry
INVARIANTS
  TypeOK
  OnlyTheTree
  AttributedToOwner
  TreeComplete
  KeyFromSameThread
  EndSeesAll
CHECK_DEADLOCK FALSE

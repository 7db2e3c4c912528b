SPECIFICATION StudySpec
CONSTANTS
  h1 = h1
  h2 = h2
  Fleets <- SmallFleets
  Pids = {1, 2}
  MaxProcs = 3
  MaxOps = 1
  MaxFailures = 1
  Slots = {s1, s2}
  MaxMishaps = 1
INVARIANTS
  SentOnce
  VerifiedIsComplete
  KeptBeforeGone
  ValidIsTrue
  CountsAreWhole
  NoSecondChance
  VerdictIsTrue
PROPERTY FleetSettles
CHECK_DEADLOCK FALSE

SPECIFICATION FairSpec
CONSTANTS
  Drivers = {"single", "batch", "pilot", "qualify"}
  Planned = 3
  BatchSize = 2
  MaxTries = 2
  MaxFaults = 1
INVARIANTS
  ValidIsWitnessed
  NativeOutcomeKept
  FrozenWhenRun
  CleanBeforeNext
  PilotOnce
PROPERTY Ends
CHECK_DEADLOCK FALSE

SPECIFICATION Spec
CONSTANTS
  Planned = 4
  MaxRetries = 1
  BatchSize = 2
  BatchKey <- MCBatchKey
INVARIANT AttemptedNotUnstarted
CHECK_DEADLOCK FALSE

SPECIFICATION FairSpec
CONSTANTS
  Planned = 4
  MaxRetries = 1
  BatchSize = 2
  BatchKey <- MCBatchKey
INVARIANTS
  TypeOK
  OneAcceptedPerSlot
  EvidenceFiled
  RetryChain
  RetryDiscipline
  DurableBeforeExecution
  SummaryHonest
PROPERTIES
  HonoursContract
  Settles
CHECK_DEADLOCK FALSE

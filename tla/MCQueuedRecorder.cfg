SPECIFICATION FairSpec
CONSTANTS
  e1 = e1
  e2 = e2
  e3 = e3
  e4 = e4
  Entry = {e1, e2, e3, e4}
  Bytes <- MCBytes
  MaxQueueSize = 2
  MaxQueueBytes = 3
  MaxAttempts = 2
INVARIANTS
  TypeOK
  OnePumpServesQueue
  ByteAccounting
PROPERTIES
  DrainFlushes
  EveryRecordSettles
  KeepsPromise
CHECK_DEADLOCK FALSE

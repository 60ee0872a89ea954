SPECIFICATION ASpec
CONSTANTS
  Entry = {e1, e2, e3}
  Bytes <- MCBytes
  MaxQueueSize = 1
  MaxQueueBytes = 1
  MaxAttempts = 2
  Engines = {"sqlite", "postgres", "oracle", "mongodb", "couchbase"}
SYMMETRY Symmetry
INVARIANT AuditOnlyWithFlag
CHECK_DEADLOCK FALSE

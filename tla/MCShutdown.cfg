SPECIFICATION Spec
CONSTANTS
  script = script
  plain = plain
  c1 = c1
  Request <- MCRequest
  Script <- script
  Call <- MCCall
INVARIANTS
  WorkerReclaimed
  RecordsKept
PROPERTIES
  CallsAreAnswered
  SignalEndsProcess
CHECK_DEADLOCK FALSE

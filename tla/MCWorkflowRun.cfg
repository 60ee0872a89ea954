SPECIFICATION RunSpec
CONSTANTS
  k1 = k1
  k2 = k2
  Client = {c1, c2}
  Key = {k1, k2}
  WorkflowName = {w1}
  WorkflowSteps <- MCSteps
  OnFailures <- MCOnFailures
  Engines = {"sqlite", "oracle", "mongodb", "couchbase"}
  MaxId = 3
  MaxVersion = 1
SYMMETRY Symmetry
INVARIANTS
  NoDanglingStep
  CreatedMeansComplete
  RunFollowsSteps
  RunsWhatItNames
PROPERTY IdentityKept
CHECK_DEADLOCK FALSE

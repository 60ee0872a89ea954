SPECIFICATION Spec
CONSTANTS
  Client = {c1, c2}
  StepId = {s1, s2}
  Engines = {"sqlite", "postgres", "oracle", "mongodb", "couchbase"}
  ReplicaSet = TRUE
  MaxCalls = 3
SYMMETRY Symmetry
INVARIANTS ReadBack NoOrphan
PROPERTIES WorkflowTakesItsSteps AllOrNothing
CHECK_DEADLOCK FALSE

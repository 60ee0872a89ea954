SPECIFICATION Spec
CONSTANTS
  k1 = k1
  k2 = k2
  Client = {c1, c2}
  Key = {k1, k2}
  WorkflowName = {w1}
  WorkflowSteps <- MCSteps
  Engines = {"postgres"}
  MaxId = 2
  MaxVersion = 2
SYMMETRY Symmetry
PROPERTY UpdateMatchesCurrent
CHECK_DEADLOCK FALSE

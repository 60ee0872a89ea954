SPECIFICATION Spec
CONSTANTS
  script = script
  plain = plain
  c1 = c1
  Request <- MCRequest
  Script <- script
  Call <- MCCall
PROPERTIES
  NothingEnqueuesMidDrain
CHECK_DEADLOCK FALSE

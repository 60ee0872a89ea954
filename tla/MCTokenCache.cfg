SPECIFICATION FairSpec
CONSTANTS
  Attempt = {a1, a2, a3}
INVARIANTS
  NoLastingPoison
  SingleFlight
PROPERTIES
  ReplayIsFresh
  OnlyOwnFailureEvicts
  EveryAttemptEnds
CHECK_DEADLOCK FALSE

SPECIFICATION FairSpec
CONSTANTS
  Policy <- MCPolicy
  MaxDelay = 3
  Lag = 2
  Horizon = 24
INVARIANTS
  TypeOK
  OneTrueRecord
  AbandonedAreCancelled
  WithinBudget
PROPERTIES
  RetriesWhileWorthIt
  EveryInvocationEnds
CHECK_DEADLOCK FALSE

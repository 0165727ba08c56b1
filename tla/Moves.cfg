SPECIFICATION Spec
CONSTANTS
  NumConns = 1
  MaxAttempts = 2
  Lifecycle <- Pauses
  MaxGen = 1
  MaxUps = 2
INVARIANTS TypeOK EpochImpliesGroup RegisteredSessionsMove
PROPERTIES RestartSparesNewer
CHECK_DEADLOCK FALSE

SPECIFICATION FairSpec
CONSTANTS
  NumConns = 2
  MaxAttempts = 2
  Lifecycle <- Both
  MaxGen = 0
  MaxUps = 2
PROPERTIES OrphansDie EveryoneMovesInTheEnd
CHECK_DEADLOCK FALSE

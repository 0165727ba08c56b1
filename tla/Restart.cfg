SPECIFICATION Spec
CONSTANTS
  g1 = g1
  Saver = saver
  NumConns = 2
  Size = 2
  ConnsPerSlot = 1
  Growers <- OneGrower
  CookieModes <- Anonymous
  CaptureFirst = FALSE
  Caching = TRUE
  Events <- Restarts
  MaxMints = 2
  MaxGen = 1
INVARIANTS OneSlotPerCred
CHECK_DEADLOCK FALSE

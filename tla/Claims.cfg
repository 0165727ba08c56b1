SPECIFICATION Spec
CONSTANTS
  g1 = g1
  Saver = saver
  NumConns = 2
  Size = 2
  ConnsPerSlot = 1
  Growers <- OneGrower
  CookieModes <- Either
  CaptureFirst = FALSE
  Caching = FALSE
  Events <- Drops
  MaxMints = 3
  MaxGen = 1
INVARIANTS ClaimIntegrity OneSlotPerCred
PROPERTIES OnlyOwnerOverwrites ClaimedSlotFilledByOwner
CHECK_DEADLOCK FALSE

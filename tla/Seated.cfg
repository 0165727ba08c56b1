SPECIFICATION FairSpec
CONSTANTS
  g1 = g1
  Saver = saver
  NumConns = 2
  Size = 2
  ConnsPerSlot = 1
  Growers <- OneGrower
  CookieModes <- Anonymous
  CaptureFirst = TRUE
  Caching = FALSE
  Events <- Quiet
  MaxMints = 4
  MaxGen = 2
INVARIANTS FreeSeatAnnounced
PROPERTIES EventuallySeated

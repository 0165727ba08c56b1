SPECIFICATION Spec
CONSTANTS
  g1 = g1
  Saver = saver
  NumConns = 2
  Size = 2
  ConnsPerSlot = 2
  Growers <- NoGrower
  CookieModes <- Anonymous
  CaptureFirst = TRUE
  Caching = FALSE
  Events <- Transport
  MaxMints = 3
  MaxGen = 1
INVARIANTS FreeSeatAnnounced MintsBounded
PROPERTIES NoParkingBesideEmptySlot SeatsOnUsableCreds

SPECIFICATION CountsSpec
CONSTANTS
  g1 = g1
  Saver = saver
  NumConns = 3
  Size = 2
  ConnsPerSlot = 2
  Growers <- NoGrower
  CookieModes <- Anonymous
  CaptureFirst = FALSE
  Caching = FALSE
  Events <- Quota
  MaxMints = 2
  MaxGen = 2
  StreamWorkers = 2
  Flows = {1, 2}
  SeqSpace = 16
  SenderTable = 1
  ReceiverTable = 2
  MaxPendingPerFlow = 1
  MaxPendingTotal = 1
  Chunk = 1
  DuplicateTCP = TRUE
  StartAt = 14
  MaxPackets = 3
  MaxSenders = 3
INVARIANTS CountsTypeOK SeatsAccounted CountsAgree
PROPERTIES OrderedFlows
CHECK_DEADLOCK FALSE

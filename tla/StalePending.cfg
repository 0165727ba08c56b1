SPECIFICATION StreamSpec
CONSTANTS
  StreamWorkers = 2
  Flows = {1}
  SeqSpace = 16
  SenderTable = 2
  ReceiverTable = 2
  MaxPendingPerFlow = 2
  MaxPendingTotal = 4
  Chunk = 1
  DuplicateTCP = FALSE
  StartAt = 14
  MaxPackets = 4
  MaxSenders = 1
INVARIANTS NothingDeliverableHeld
CHECK_DEADLOCK FALSE

SPECIFICATION ClientSpec
CONSTANTS
  Workers = {1, 2}
  FirstWorker = 1
  Attempts = 2
  MaxEvents = 1
  MaxFaults = 1
INVARIANTS ClientTypeOK LeaseCoversRelay KicksMeant
PROPERTIES EverythingReleased EveryoneAnnounced
CHECK_DEADLOCK FALSE

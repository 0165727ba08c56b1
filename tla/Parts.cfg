SPECIFICATION PartsSpec
CONSTANTS
  Writers = {1}
  MaxCost = 3
  Costs = {1, 3}
  Burst = 4
  Rate = 2
  MaxChanges = 2
  Horizon = 4
  Keypairs = {1, 2}
  RxWindow = 3
  DepthBuckets = 2
  RxMaxPeers = 1
  MaxCounter = 6
  MaxSeen = 4
  Slots = {0, 1}
  NumLinks = 2
  Relays = {ra, rb}
  MaxConfigs = 1
  DualGap = 2
  CascadePause = 3
  CascadeWindow = 4
  TransitionPause = 3
  VkLifetime = 5
  SafetyBuffer = 1
  MinRealUse = 1
  RecentUse = 7
  MaxEvents = 3
  Producers = {p1}
  Conns = {c1, c2}
  TxBufs = {t1, t2}
  RxBufs = {r1, r2}
  QueueLen = 1
  MaxPackets = 2
  Kinds = {"dtls", "wrapa", "srtp"}
  MaxSessions = 2
  WrapBufs = {w1, w2}
  DtlsCap = 1
  RtpCap = 1
  MaxArrivals = 3
  DlHorizon = 3
  MaxSets = 3
INVARIANTS UnitsTypeOK CountsTrue OwnedOnce TimersFit RefusalCharged
PROPERTIES CancelledEnds
CHECK_DEADLOCK FALSE

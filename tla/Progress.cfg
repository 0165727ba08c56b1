SPECIFICATION ProgressSpec
CONSTANTS
  Workers = 2
  TickSlack = 1
  ProbeAfter = 2
  DeadAfter = 2
  ReadyGrace = 1
  WakeCut = FALSE
  StaleAfter = 3
  FreezeGap = 2
  MaxLead = 2
  MaxDue = 2
  Clients = 2
  StepTries = 2
  PowTries = 3
  Waves = 2
  Attaches = {a1, a2}
  Stops = {o1, o2}
  Waiters = {w1, w2}
  Joiners = {a1, a2}
  Failures = {"creds", "client"}
INVARIANTS PartsTypeOK NothingMisused SilentWhileRunning
PROPERTIES DeadOnesKilled TunnelTriesAgain MintEnds StepsJustified StopsReleaseAll
CHECK_DEADLOCK FALSE

SPECIFICATION DirectSpec
CONSTANTS
  Others = 1
  MaxRetries = 2
  MaxRelays = 3
INVARIANT SeatGivenBack
CHECK_DEADLOCK FALSE

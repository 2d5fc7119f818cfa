CONSTANTS
  MaxBrowsers = 2
  MaxMessages = 6
  MaxStarts = 2
  Habits <- Pinging
SPECIFICATION Spec
INVARIANT PingTellsDeath
CHECK_DEADLOCK FALSE

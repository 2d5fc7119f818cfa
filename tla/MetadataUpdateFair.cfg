CONSTANTS
  Plugins = {p}
  MaxReleases = 2
  MaxDay = 3
  RetryBase = 5
  RetryMax = 10
  MaxStarts = 2
SPECIFICATION FairSpec
PROPERTIES NewsArrive
CHECK_DEADLOCK FALSE

CONSTANTS
  Plugins = {p, q}
  MaxReleases = 3
  MaxDay = 3
  RetryBase = 5
  RetryMax = 10
  MaxStarts = 2
SPECIFICATION Spec
INVARIANTS NoGap Awaited RetryBounded AttemptRemembered
PROPERTIES MergedIsServed
CHECK_DEADLOCK FALSE
SYMMETRY Symmetry

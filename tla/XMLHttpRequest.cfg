CONSTANTS
  Addrs = {1, 2}
  MaxOpens = 3
  MaxSends = 3
  MaxPieces = 2
  MaxDepth = 3
  MayCall <- Usual
  Modes = {TRUE}
SPECIFICATION Spec
INVARIANTS HandlesSafe NothingLeaks SentIsServed OwnData Asserted RefsCover
PROPERTY EndsOwn
CHECK_DEADLOCK FALSE

CONSTANTS
  Addrs = {1, 2}
  MaxOpens = 2
  MaxSends = 2
  MaxPieces = 1
  MaxDepth = 3
  MayCall <- Dialogs
  Modes = {TRUE, FALSE}
SPECIFICATION FairSpec
PROPERTY SentEnds
CHECK_DEADLOCK FALSE

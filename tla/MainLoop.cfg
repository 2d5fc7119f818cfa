CONSTANTS
  MaxWatches = 4
  MaxDepth = 4
  Threads = {t1, t2}
SPECIFICATION FairSpec
INVARIANTS RemovedOnce NodesOutliveFrames NothingLeft
PROPERTIES RemovalHappens
CHECK_DEADLOCK FALSE

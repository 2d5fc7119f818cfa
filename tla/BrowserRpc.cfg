CONSTANTS
  MaxBrowsers = 2
  MaxMessages = 6
  MaxStarts = 2
  Habits <- Orderly
SPECIFICATION FairSpec
INVARIANTS CommandGetsOwn FeedbackGetsOwn NoMutualWait PagesOfElements
PROPERTIES CommandsEnd
CHECK_DEADLOCK FALSE

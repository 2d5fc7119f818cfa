CONSTANTS
  Gadgets = {rss, clock}
  Local = {rss, clock}
  Unsupported = {}
  NoGadget = NoGadget
  MaxInstances = 2
  Threshold = 4
  MaxCalls = 3
  Restarts = TRUE
SPECIFICATION Spec
INVARIANTS ActiveSetExact MaxIdCovers PendingIsOwn ActiveIsLoaded
PROPERTY ImplementsRegistry

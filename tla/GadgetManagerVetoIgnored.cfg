CONSTANTS
  Gadgets = {rss, clock}
  Local = {clock}
  Unsupported = {}
  NoGadget = NoGadget
  MaxInstances = 2
  Threshold = 4
  MaxCalls = 2
  Restarts = FALSE
SPECIFICATION Spec
INVARIANT ActiveIsLoaded
